---- MODULE Spec2Model ----
(***************************************************************************)
(* Model of the provider gateway core of llm-key-vault:                    *)
(*   - the streaming translators of web/src/lib/llm.ts and the relay of    *)
(*     web/src/app/api/chat/route.ts,                                      *)
(*   - the fan-out executors (compare route and LLMClient.compare),        *)
(*   - the secret envelope (crypto.ts) and the api_keys credential store,  *)
(*   - single-request dispatch (sendChat / sendChatStream / LLMClient.send)*)
(***************************************************************************)
EXTENDS Integers, Sequences, FiniteSets, TLC

VARIABLES
    \* ---- streaming translator (llm.ts) ----
    kind,         \* which translator serves the request
    hasBody,      \* res.body is present
    tpc,          \* translator position: "start" | "read" | "closed"
    buffer,       \* partial line carried between reads
    reads,        \* number of upstream chunks read so far
    tq,           \* every chunk the translator enqueued, in order
    \* ---- relay (route.ts POST) ----
    rpc,          \* relay position: "init" | "read" | "persist" | "final" | "closed"
    persisting,   \* the request names a session and an assistant message to persist to
    rpos,         \* number of translator chunks the relay has read
    clientClosed, \* route.ts: let clientClosed
    cancelled,    \* the consumer has cancelled the response stream
    heartbeat,    \* the keep-alive interval is active
    beats,        \* keep-alive firings so far
    clientOut,    \* every chunk delivered to the consumer, in order
    relay,        \* "POST" (route.ts) | "wrapSseStream"
    interval,     \* wrapSseStream: opts.heartbeatIntervalMs
    preface,      \* wrapSseStream: opts.prefaceEvents
    escaped,      \* an exception was thrown out of the relay's start()
    texc,         \* the upstream read of the translator was rejected
    upstream,     \* the line fragments received from the upstream so far
    written,      \* <<>>, or <<the content of the last chat_messages update>>
    \* ---- one use of the envelope (crypto.ts) ----
    cpc,          \* "plain" | "sealed" | "opened"
    cplain,       \* the plaintext given to encryptSecret
    cenv,         \* the envelope given to decryptSecret
    ctamper,      \* the field changed since encryptSecret: 0 none, 3 tag, 4 ciphertext,
                  \* 1 the version, 5 the number of fields
    keyEnv,       \* process.env.LLMKV_ENCRYPTION_KEY of the running process
    cresult,      \* what decryptSecret returned or threw
    \* ---- credential store (api/keys route, api_keys table) ----
    store,        \* the rows of public.api_keys
    clock,        \* now() of the database
    req,          \* the requests to the keys route and the key loads, by id
    saved,        \* per (user, provider): the apiKey of the last save applied, if any
    \* ---- two runs of the keys route that differ in the saved apiKeys only ----
    storeB,       \* the api_keys rows of the second run (store holds the first run's)
    respA,        \* the responses of the first run, in order
    respB,        \* the responses of the second run, in order
    sameLast4,    \* every pair of apiKeys saved so far ends in the same 4 code units
    sameHint,     \* every pair of apiKeys saved so far has the same keyHint
    \* ---- dispatch and fan-out (llm.ts, api/compare route, LLMClient) ----
    entry,        \* "sendChat" (compare route) | "sendChatStream" (chat route) | "LLMClient.send"
    targets,      \* the targets of the request, in order
    adapters,     \* LLMClient: the providers with a registered adapter
    keychain,     \* LLMClient: the providers with a secret in the SecretStore
    job,          \* per target: position, outcome and upstream requests issued
    order,        \* the targets' indices in the order their dispatches completed
    fpc,          \* "running" | "returned" | "raised"
    results,      \* what the request returned
    \* ---- context window manager and its use by the chat route ----
    chatModel,    \* body.model
    body,         \* body.messages as the request was received
    messages,     \* route.ts: let messages
    xpc,          \* "check" | "load" | "split" | "send" | "done" | "failed" | "called"
    step,         \* the step of summarization that failed, or "none"
    sent,         \* the message lists given to sendChatStream
    splits,       \* a call of splitForSummarization and what it returned
    \* ---- one call of a function of its arguments alone ----
    call,         \* the function called and its arguments
    returned      \* <<>> before the call returns, then <<what it returned>>

streamVars == <<kind, hasBody, tpc, buffer, reads, tq,
                rpc, rpos, clientClosed, cancelled, heartbeat, beats, clientOut,
                relay, persisting, interval, preface, escaped, texc, upstream, written>>

cryptoVars == <<cpc, cplain, cenv, ctamper, cresult, keyEnv>>

vaultVars == <<store, clock, req, saved>>

twinVars == <<storeB, respA, respB, sameLast4, sameHint>>

fanVars == <<entry, targets, adapters, keychain, job, order, fpc, results>>

contextVars == <<chatModel, body, messages, xpc, step, sent, splits>>

callVars == <<call, returned>>

vars == <<streamVars, cryptoVars, vaultVars, twinVars, fanVars, contextVars, callVars>>

\* what the actions of each part leave alone
notStream == <<cryptoVars, vaultVars, twinVars, fanVars, contextVars, callVars>>
notCrypto == <<streamVars, vaultVars, twinVars, fanVars, contextVars, callVars>>
notVault  == <<streamVars, cryptoVars, twinVars, fanVars, contextVars, callVars>>
notTwin   == <<streamVars, cryptoVars, req, saved, fanVars, contextVars, callVars>>
notContext == <<streamVars, cryptoVars, vaultVars, twinVars, fanVars, callVars>>
notFan    == <<streamVars, cryptoVars, vaultVars, twinVars, contextVars, callVars>>
notCall   == <<streamVars, cryptoVars, vaultVars, twinVars, fanVars, contextVars>>

(***************************************************************************)
(* Bounds                                                                  *)
(***************************************************************************)
MaxReads == 2     \* upstream chunks per response
MaxChunk == 2     \* line fragments per upstream chunk
MaxBeats == 1     \* keep-alive firings per response
MaxUpstream == 4  \* line fragments received from the upstream per response
MaxPlain == 2     \* code units of a plaintext given to encryptSecret directly
NumIVs   == 2     \* values crypto.randomBytes(12) is drawn from
MaxReqs  == 2     \* requests to the keys route in one run
MidLen   == 8     \* code units between the two ends of a submitted apiKey
MaxTwinOps == 3   \* requests to the keys route in each of two compared runs
MaxTwinSaves == 1 \* saves among them
MaxTargets == 2   \* targets of one compare request
MaxMsgs == 4      \* messages of one chat request
MaxKeep == 3      \* largest keepLastN given to splitForSummarization
ShortLen == 40    \* code units of a short message
LongLen == 268800 \* code units of a long message: two of them reach the threshold
CaptionLen == 268000 \* code units of the text beside an image: 200 tokens less
MaxSecret == 8    \* characters of a secret given to mask
MaxShown == 4     \* largest keepPrefix and keepSuffix given to mask
MaxText == 3      \* characters of a text given to redact
MaxSecrets == 2   \* secrets given to redact
MaxSecretLen == 2 \* characters of a secret given to redact
MaxTurns == 3     \* messages of a request given to a request builder

(***************************************************************************)
(* Sequence helpers                                                        *)
(***************************************************************************)
Last(s) == s[Len(s)]

Count(s, x) == Cardinality({i \in 1..Len(s) : s[i] = x})

SeqsUpTo(S, n) == UNION {[1..k -> S] : k \in 0..n}

SelectData(s) == SelectSeq(s, LAMBDA x : x \notin {":stream-start", ":keep-alive"})

(***************************************************************************)
(* Text.  A string is a sequence of UTF-16 code units.                     *)
(***************************************************************************)
SPACE     == 32
STAR      == 42
SURROGATE == 55296     \* 0xD800, a high surrogate with no low surrogate after it
REPLACEMENT == 65533   \* U+FFFD

IsSurrogate(c) == c >= 55296 /\ c <= 57343

\* the code units String.prototype.trim removes (those in the alphabets used)
IsWhiteSpace(c) == c \in {9, 10, 11, 12, 13, 32, 160}

RECURSIVE TrimStart(_)
TrimStart(s) ==
    IF s # <<>> /\ IsWhiteSpace(Head(s)) THEN TrimStart(Tail(s)) ELSE s

RECURSIVE TrimEnd(_)
TrimEnd(s) ==
    IF s # <<>> /\ IsWhiteSpace(Last(s)) THEN TrimEnd(SubSeq(s, 1, Len(s) - 1)) ELSE s

Trim(s) == TrimEnd(TrimStart(s))

\* s.slice(-n) for n > 0
SliceLast(s, n) == IF Len(s) <= n THEN s ELSE SubSeq(s, Len(s) - n + 1, Len(s))

\* haystack.includes(needle)
Includes(haystack, needle) ==
    \E i \in 0..(Len(haystack) - Len(needle)) :
        SubSeq(haystack, i + 1, i + Len(needle)) = needle

\* Buffer.from(str, "utf8") / cipher.update(str, "utf8")
Utf8Unit(c) ==
    IF c < 128 THEN <<c>>
    ELSE IF c < 2048 THEN <<192 + (c \div 64), 128 + (c % 64)>>
    ELSE IF IsSurrogate(c) THEN <<239, 191, 189>>
    ELSE <<224 + (c \div 4096), 128 + ((c \div 64) % 64), 128 + (c % 64)>>

RECURSIVE Utf8Encode(_)
Utf8Encode(s) ==
    IF s = <<>> THEN <<>> ELSE Utf8Unit(Head(s)) \o Utf8Encode(Tail(s))

IsCont(b) == b >= 128 /\ b < 192

\* buf.toString("utf8")
RECURSIVE Utf8Decode(_)
Utf8Decode(b) ==
    IF b = <<>> THEN <<>>
    ELSE IF b[1] < 128 THEN <<b[1]>> \o Utf8Decode(Tail(b))
    ELSE IF b[1] >= 194 /\ b[1] < 224 /\ Len(b) >= 2 /\ IsCont(b[2])
        THEN <<(b[1] - 192) * 64 + (b[2] - 128)>> \o Utf8Decode(SubSeq(b, 3, Len(b)))
    ELSE IF b[1] >= 224 /\ b[1] < 240 /\ Len(b) >= 3 /\ IsCont(b[2]) /\ IsCont(b[3])
            /\ (b[1] - 224) * 4096 + (b[2] - 128) * 64 + (b[3] - 128) >= 2048
            /\ ~IsSurrogate((b[1] - 224) * 4096 + (b[2] - 128) * 64 + (b[3] - 128))
        THEN <<(b[1] - 224) * 4096 + (b[2] - 128) * 64 + (b[3] - 128)>>
             \o Utf8Decode(SubSeq(b, 4, Len(b)))
    ELSE <<REPLACEMENT>> \o Utf8Decode(Tail(b))

(***************************************************************************)
(* Base64.  A base64 text is a sequence of symbols: 0..63 are the digits   *)
(* of the alphabet in order (A-Z a-z 0-9 + /), B64PAD is "=", and B64SEP   *)
(* is ":" (not a base64 character; it delimits the envelope fields).       *)
(***************************************************************************)
B64PAD == 64
B64SEP == 65

\* buf.toString("base64")
RECURSIVE Base64Encode(_)
Base64Encode(b) ==
    IF b = <<>> THEN <<>>
    ELSE IF Len(b) = 1 THEN
        <<b[1] \div 4, (b[1] % 4) * 16, B64PAD, B64PAD>>
    ELSE IF Len(b) = 2 THEN
        <<b[1] \div 4, (b[1] % 4) * 16 + (b[2] \div 16), (b[2] % 16) * 4, B64PAD>>
    ELSE
        <<b[1] \div 4, (b[1] % 4) * 16 + (b[2] \div 16),
          (b[2] % 16) * 4 + (b[3] \div 64), b[3] % 64>>
        \o Base64Encode(SubSeq(b, 4, Len(b)))

\* the digits Buffer.from(text, "base64") decodes: decoding stops at the
\* first "=", and characters outside the alphabet are skipped
RECURSIVE Base64Digits(_)
Base64Digits(t) ==
    IF t = <<>> \/ Head(t) = B64PAD THEN <<>>
    ELSE IF Head(t) < 64 THEN <<Head(t)>> \o Base64Digits(Tail(t))
    ELSE Base64Digits(Tail(t))

RECURSIVE Base64Bytes(_)
Base64Bytes(d) ==
    IF Len(d) < 2 THEN <<>>
    ELSE IF Len(d) = 2 THEN <<d[1] * 4 + (d[2] \div 16)>>
    ELSE IF Len(d) = 3 THEN
        <<d[1] * 4 + (d[2] \div 16), (d[2] % 16) * 16 + (d[3] \div 4)>>
    ELSE
        <<d[1] * 4 + (d[2] \div 16), (d[2] % 16) * 16 + (d[3] \div 4),
          (d[3] % 4) * 64 + d[4]>>
        \o Base64Bytes(SubSeq(d, 5, Len(d)))

\* Buffer.from(text, "base64")
Base64Decode(t) == Base64Bytes(Base64Digits(t))

(***************************************************************************)
(* AES-256-GCM of node:crypto, as an ideal authenticated cipher: the       *)
(* ciphertext is the plaintext under a keystream fixed by key and iv, and  *)
(* the tag binds key, iv and ciphertext.                                   *)
(***************************************************************************)
IV_BYTES  == 12
TAG_BYTES == 16

\* tag lengths decipher.setAuthTag accepts when authTagLength is not given
ValidTagLengths == {4, 8, 12, 13, 14, 15, 16}

Keystream(key, iv, i) == (key + 7 * iv[1] + 13 * i) % 256

RECURSIVE SumTo(_, _)
SumTo(b, i) == IF i = 0 THEN 0 ELSE (SumTo(b, i - 1) + b[i]) % 256

SumBytes(b) == SumTo(b, Len(b))

RECURSIVE WeightedSumTo(_, _)
WeightedSumTo(b, i) ==
    IF i = 0 THEN 0 ELSE (WeightedSumTo(b, i - 1) + (2 * i + 1) * b[i]) % 256

WeightedSum(b) == WeightedSumTo(b, Len(b))

\* cipher.update(plaintext) + cipher.final()
GcmEncrypt(key, iv, pt) == [i \in 1..Len(pt) |-> (pt[i] + Keystream(key, iv, i)) % 256]

\* decipher.update(ciphertext)
GcmDecrypt(key, iv, ct) == [i \in 1..Len(ct) |-> (ct[i] + 256 - Keystream(key, iv, i)) % 256]

\* cipher.getAuthTag(): every byte of the tag depends on key, iv and ciphertext
GcmTag(key, iv, ct) ==
    LET sc == SumBytes(ct)
        si == SumBytes(iv)
        wc == WeightedSum(ct)
        wi == WeightedSum(iv)
    IN [j \in 1..TAG_BYTES |->
        IF j % 4 = 1 THEN (sc + 5 * si + key + j) % 256
        ELSE IF j % 4 = 2 THEN (Len(ct) + 31 * Len(iv) + 3 * key + j) % 256
        ELSE IF j % 4 = 3 THEN (wc + wi + j) % 256
        ELSE (3 * sc + wi + 7 * key + j) % 256]

\* decipher.final(): the tag given to setAuthTag is checked against the
\* computed tag truncated to the given length
GcmVerify(key, iv, ct, tag) ==
    /\ Len(tag) \in ValidTagLengths
    /\ tag = SubSeq(GcmTag(key, iv, ct), 1, Len(tag))

(***************************************************************************)
(* crypto.ts: the secret envelope                                          *)
(***************************************************************************)
ENVELOPE_PREFIX == <<47, 53>>    \* "v1" (v and 1 are base64 digits 47 and 53)

ENCRYPTION_KEY == 5              \* the configured LLMKV_ENCRYPTION_KEY

Ok(v)  == [ok |-> TRUE, value |-> v]
Err(m) == [ok |-> FALSE, error |-> m]

\* parts.join(":")
RECURSIVE Join(_)
Join(parts) ==
    IF Len(parts) = 0 THEN <<>>
    ELSE IF Len(parts) = 1 THEN parts[1]
    ELSE parts[1] \o <<B64SEP>> \o Join(Tail(parts))

\* text.split(":")
RECURSIVE Split(_)
Split(t) ==
    IF \A i \in 1..Len(t) : t[i] # B64SEP THEN <<t>>
    ELSE LET i == CHOOSE j \in 1..Len(t) :
                      t[j] = B64SEP /\ \A k \in 1..(j-1) : t[k] # B64SEP
         IN <<SubSeq(t, 1, i-1)>> \o Split(SubSeq(t, i+1, Len(t)))

\* const [a, b, c, d] = parts: a missing element is undefined, here <<>>,
\* which the falsy test below treats like the empty string
Field(parts, i) == IF i <= Len(parts) THEN parts[i] ELSE <<>>

\* if (key.length !== 32)
KEY_BYTES == 32

\* getKey(): the variable is unset or empty, or holds the base64 of some bytes
getKey(env) ==
    IF ~env.set \/ env.bytes = 0 THEN Err("Missing LLMKV_ENCRYPTION_KEY")
    ELSE IF env.bytes # KEY_BYTES THEN Err("LLMKV_ENCRYPTION_KEY must be 32 bytes (base64)")
    ELSE Ok(ENCRYPTION_KEY)

\* the test decryptSecret makes before it reads the key
EnvelopeFormatOk(envelope) ==
    LET parts == Split(envelope) IN
    /\ Field(parts, 1) = ENVELOPE_PREFIX
    /\ Field(parts, 2) # <<>> /\ Field(parts, 3) # <<>> /\ Field(parts, 4) # <<>>

encryptSecret(plaintext, iv) ==
    LET ciphertext == GcmEncrypt(ENCRYPTION_KEY, iv, Utf8Encode(plaintext))
        tag        == GcmTag(ENCRYPTION_KEY, iv, ciphertext)
    IN Join(<<ENVELOPE_PREFIX, Base64Encode(iv), Base64Encode(tag),
              Base64Encode(ciphertext)>>)

decryptSecret(envelope) ==
    LET parts  == Split(envelope)
        prefix == Field(parts, 1)
        ivB64  == Field(parts, 2)
        tagB64 == Field(parts, 3)
        ctB64  == Field(parts, 4)
    IN IF Len(parts) = 0 \/ prefix # ENVELOPE_PREFIX
          \/ ivB64 = <<>> \/ tagB64 = <<>> \/ ctB64 = <<>>
       THEN Err("Invalid secret envelope format")
       ELSE LET iv         == Base64Decode(ivB64)
                tag        == Base64Decode(tagB64)
                ciphertext == Base64Decode(ctB64)
            IN IF Len(iv) = 0 THEN Err("Invalid initialization vector")
               ELSE IF ~GcmVerify(ENCRYPTION_KEY, iv, ciphertext, tag)
               THEN Err("Unsupported state or unable to authenticate data")
               ELSE Ok(Utf8Decode(GcmDecrypt(ENCRYPTION_KEY, iv, ciphertext)))

(***************************************************************************)
(* Upstream bytes.  A chunk is a sequence of fragments; "NL" is the line   *)
(* feed, every other fragment is the text of a line (or of a part of one): *)
(*   TXT  data: <json of a text delta event>                               *)
(*   THK  data: <json of a thinking / reasoning delta event>               *)
(*   USG  data: <json of an event carrying usage>                          *)
(*   END  data: [DONE]                                                     *)
(*   BAD  data: <something JSON.parse rejects>                             *)
(*   EVT  a line that does not start with "data: " (event:, id:, comment)  *)
(*   CR   a carriage return                                                *)
(***************************************************************************)
DataFrags == {"TXT", "THK", "USG", "END", "BAD"}
UpFrags   == {"TXT", "THK", "END", "NL"}
UpChunks  == SeqsUpTo(UpFrags, MaxChunk) \ {<<>>}

Kinds == {"responses", "chatcompletions", "anthropic"}

\* (a keep-alive written as a data line)
KEEP_ALIVE_AS_DATA == "keep-alive"

\* safeEnqueue(": keep-alive\n\n"): a comment line of the event stream
KEEP_ALIVE == ":keep-alive"

\* splitForSummarization(contextMessages, 3)
KEEP_LAST_N == 3

\* setInterval(..., 15_000); opts?.heartbeatIntervalMs ?? 15_000
HEARTBEAT_MS == 15000

\* (a split that loses the unfinished line at the end of the buffer)
SplitLinesDroppingRest(s) ==
    IF \A i \in 1..Len(s) : s[i] # "NL" THEN <<<<>>>>
    ELSE LET last == CHOOSE j \in 1..Len(s) :
                         s[j] = "NL" /\ \A k \in (j+1)..Len(s) : s[k] # "NL"
             lines == [i \in 1..Cardinality({j \in 1..last : s[j] = "NL"}) |->
                          LET stop == CHOOSE j \in 1..last :
                                         s[j] = "NL" /\ Cardinality({k \in 1..j : s[k] = "NL"}) = i
                              start == IF i = 1 THEN 1
                                       ELSE 1 + CHOOSE j \in 1..last :
                                                  s[j] = "NL" /\ Cardinality({k \in 1..j : s[k] = "NL"}) = i - 1
                          IN SubSeq(s, start, stop - 1)]
         IN Append(lines, <<>>)

\* buffer.split("\n"): the lines of a buffer, the last one being the rest
RECURSIVE SplitLines(_)
SplitLines(s) ==
    IF \A i \in 1..Len(s) : s[i] # "NL" THEN <<s>>
    ELSE LET i == CHOOSE j \in 1..Len(s) :
                      s[j] = "NL" /\ \A k \in 1..(j-1) : s[k] # "NL"
         IN <<SubSeq(s, 1, i-1)>> \o SplitLines(SubSeq(s, i+1, Len(s)))

\* llm.ts normalizeSseLine: drop one trailing carriage return
normalizeSseLine(line) ==
    IF Len(line) > 0 /\ Last(line) = "CR" THEN SubSeq(line, 1, Len(line)-1)
    ELSE line

\* normalized.startsWith("data: ")
StartsWithData(line) == Len(line) > 0 /\ line[1] \in DataFrags

\* What the line is after slice(6): one whole fragment keeps its meaning,
\* glued fragments are text that JSON.parse rejects.
LineClass(line) ==
    IF ~StartsWithData(line) THEN "EVT"
    ELSE IF Len(line) = 1 THEN line[1]
    ELSE "BAD"

\* chunks enqueued for one line by callOpenAIResponsesStream
ResponsesLine(line) ==
    LET c == LineClass(normalizeSseLine(line)) IN
    IF c = "EVT" THEN <<>>
    ELSE IF c = "END" THEN <<>>
    ELSE IF c = "TXT" THEN <<"text">>
    ELSE IF c = "THK" THEN <<"thinking">>
    ELSE <<>>

\* chunks enqueued for one line by callOpenAIChatCompletionsStream
ChatCompletionsLine(line) ==
    LET c == LineClass(normalizeSseLine(line)) IN
    IF c = "EVT" THEN <<>>
    ELSE IF c = "END" THEN <<"DONE">>
    ELSE IF c = "TXT" THEN <<"text">>
    ELSE IF c = "USG" THEN <<"usage">>
    ELSE <<>>

\* chunks enqueued for one line by callAnthropicStream
AnthropicLine(line) ==
    LET c == LineClass(normalizeSseLine(line)) IN
    IF c = "EVT" THEN <<>>
    ELSE IF c = "TXT" THEN <<"text">>
    ELSE IF c = "THK" THEN <<"thinking">>
    ELSE <<>>

LineOut(k, line) ==
    IF k = "responses" THEN ResponsesLine(line)
    ELSE IF k = "chatcompletions" THEN ChatCompletionsLine(line)
    ELSE AnthropicLine(line)

RECURSIVE LinesOut(_, _)
LinesOut(k, lines) ==
    IF lines = <<>> THEN <<>>
    ELSE LineOut(k, Head(lines)) \o LinesOut(k, Tail(lines))

\* what follows the read loop when the upstream ends
OnUpstreamEnd(k) ==
    IF k = "chatcompletions" THEN <<>> ELSE <<"usage", "DONE">>

\* the catch block of the read loop
OnUpstreamError(k) ==
    IF k = "chatcompletions" THEN <<"error", "DONE">>
    ELSE <<"error", "usage", "DONE">>

(***************************************************************************)
(* Translator: start(controller) of the ReadableStream each call* returns  *)
(***************************************************************************)
\* const reader = res.body?.getReader(); if (!reader) { close; return }
TranslatorStart ==
    /\ tpc = "start"
    /\ tpc' = IF hasBody THEN "read" ELSE "closed"
    /\ UNCHANGED <<kind, hasBody, relay, persisting, written, interval, preface, escaped, texc, upstream, buffer, reads, tq,
                   rpc, rpos, clientClosed, cancelled, heartbeat, beats, clientOut>>
    /\ UNCHANGED notStream

\* reader.read() yields a chunk: append to the buffer, process whole lines
TranslatorChunk ==
    /\ tpc = "read"
    /\ reads < MaxReads
    /\ \E chunk \in UpChunks :
          LET lines == SplitLines(buffer \o chunk) IN
          /\ Len(upstream) + Len(chunk) <= MaxUpstream
          /\ upstream' = upstream \o chunk
          /\ buffer' = Last(lines)
          /\ tq' = tq \o LinesOut(kind, SubSeq(lines, 1, Len(lines) - 1))
    /\ reads' = reads + 1
    /\ UNCHANGED <<kind, hasBody, relay, persisting, written, interval, preface, escaped, texc, tpc,
                   rpc, rpos, clientClosed, cancelled, heartbeat, beats, clientOut>>
    /\ UNCHANGED notStream

\* reader.read() yields done: leave the loop, then finally { close }
TranslatorEnd ==
    /\ tpc = "read"
    /\ tq' = tq \o OnUpstreamEnd(kind)
    /\ tpc' = "closed"
    /\ UNCHANGED <<kind, hasBody, relay, persisting, written, interval, preface, escaped, texc, upstream, buffer, reads,
                   rpc, rpos, clientClosed, cancelled, heartbeat, beats, clientOut>>
    /\ UNCHANGED notStream

\* reader.read() rejects (transport failure): catch, then finally { close }
TranslatorFail ==
    /\ tpc = "read"
    /\ tq' = tq \o OnUpstreamError(kind)
    /\ tpc' = "closed"
    /\ texc' = TRUE
    /\ UNCHANGED <<kind, hasBody, relay, persisting, written, interval, preface, escaped, upstream, buffer, reads,
                   rpc, rpos, clientClosed, cancelled, heartbeat, beats, clientOut>>
    /\ UNCHANGED notStream

(***************************************************************************)
(* Relay: the ReadableStream built by POST in route.ts                     *)
(***************************************************************************)
\* route.ts safeEnqueue: dropped once the client is gone
RelayEnqueue(out, closed, gone, chunk) ==
    IF closed \/ gone THEN out ELSE Append(out, chunk)

\* safeEnqueue(": stream-start"); setInterval(...); upstream.getReader()
RelayStart ==
    /\ relay = "POST"
    /\ rpc = "init"
    /\ clientOut' = RelayEnqueue(clientOut, clientClosed, cancelled, ":stream-start")
    /\ clientClosed' = (clientClosed \/ cancelled)
    /\ heartbeat' = TRUE
    /\ rpc' = "read"
    /\ UNCHANGED <<kind, hasBody, relay, persisting, written, interval, preface, escaped, texc, upstream, tpc, buffer, reads, tq, rpos, cancelled, beats>>
    /\ UNCHANGED notStream

\* assistantText after the first n chunks of the translator: the text events
\* among them (each named by its place in the stream), in the order parsed
assistantText(events, n) ==
    LET IsText(i) == events[i] = "text"
    IN SelectSeq([i \in 1..n |-> i], IsText)

\* persist(force) for an event just parsed: whether it awaits a database
\* write; none without a session, none within 1200 ms of the last (unless forced)
PersistWrites(on, event) ==
    IF ~on \/ event \notin {"text", "thinking", "sources", "usage", "error"} THEN {FALSE}
    ELSE IF event = "error" THEN {TRUE}
    ELSE BOOLEAN

\* reader.read() yields a chunk: forward it as-is, then await persist(...)
RelayForward ==
    /\ relay = "POST"
    /\ rpc = "read"
    /\ rpos < Len(tq)
    /\ clientOut' = RelayEnqueue(clientOut, clientClosed, cancelled, tq[rpos + 1])
    /\ clientClosed' = (clientClosed \/ cancelled)
    /\ rpos' = rpos + 1
    /\ \E write \in PersistWrites(persisting, tq[rpos + 1]) :
          /\ rpc' = IF write THEN "persist" ELSE "read"
          /\ written' = IF write THEN <<assistantText(tq, rpos + 1)>> ELSE written
    /\ UNCHANGED <<kind, hasBody, relay, persisting, interval, preface, escaped, texc, upstream, tpc, buffer, reads, tq, cancelled, heartbeat, beats>>
    /\ UNCHANGED notStream

\* (the read loop ending without the final persist)
RelayEndWithoutPersist ==
    /\ relay = "POST"
    /\ rpc = "read"
    /\ rpos = Len(tq)
    /\ tpc = "closed"
    /\ heartbeat' = FALSE
    /\ rpc' = "closed"
    /\ UNCHANGED <<kind, hasBody, relay, persisting, written, interval, preface, escaped, texc, upstream, tpc, buffer, reads, tq, rpos,
                   clientClosed, cancelled, beats, clientOut>>
    /\ UNCHANGED notStream

\* reader.read() yields done: await persist(true), then clearInterval,
\* releaseLock, close
RelayEnd ==
    /\ relay = "POST"
    /\ rpc = "read"
    /\ rpos = Len(tq)
    /\ tpc = "closed"
    /\ heartbeat' = (heartbeat /\ persisting)
    /\ rpc' = IF persisting THEN "final" ELSE "closed"
    /\ written' = IF persisting THEN <<assistantText(tq, rpos)>> ELSE written
    /\ UNCHANGED <<kind, hasBody, relay, persisting, interval, preface, escaped, texc, upstream, tpc, buffer, reads, tq, rpos,
                   clientClosed, cancelled, beats, clientOut>>
    /\ UNCHANGED notStream

\* the database write that persist awaits completes, or fails and is ignored
PersistDone ==
    /\ relay = "POST"
    /\ rpc \in {"persist", "final"}
    /\ rpc' = IF rpc = "final" THEN "closed" ELSE "read"
    /\ heartbeat' = (heartbeat /\ rpc # "final")
    /\ UNCHANGED <<kind, hasBody, relay, persisting, written, interval, preface, escaped, texc, upstream, tpc, buffer, reads, tq, rpos,
                   clientClosed, cancelled, beats, clientOut>>
    /\ UNCHANGED notStream

\* the interval fires: safeEnqueue(": keep-alive")
Heartbeat ==
    /\ relay = "POST"
    /\ heartbeat
    /\ beats < MaxBeats
    /\ clientOut' = RelayEnqueue(clientOut, clientClosed, cancelled, KEEP_ALIVE)
    /\ clientClosed' = (clientClosed \/ cancelled)
    /\ beats' = beats + 1
    /\ UNCHANGED <<kind, hasBody, relay, persisting, written, interval, preface, escaped, texc, upstream, tpc, buffer, reads, tq, rpc, rpos, cancelled, heartbeat>>
    /\ UNCHANGED notStream

\* the consumer disconnects: cancel() { clientClosed = true }
ClientCancel ==
    /\ relay = "POST"
    /\ rpc \in {"read", "persist", "final"}
    /\ ~cancelled
    /\ cancelled' = TRUE
    /\ clientClosed' = TRUE
    /\ UNCHANGED <<kind, hasBody, relay, persisting, written, interval, preface, escaped, texc, upstream, tpc, buffer, reads, tq, rpc, rpos,
                   heartbeat, beats, clientOut>>
    /\ UNCHANGED notStream

(***************************************************************************)
(* Relay: wrapSseStream                                                    *)
(***************************************************************************)
\* controller.enqueue / controller.close throw once the consumer has cancelled
ControllerThrows(gone) == gone

RECURSIVE EnqueueAll(_, _, _)
EnqueueAll(out, gone, chunks) ==
    IF chunks = <<>> THEN out
    ELSE EnqueueAll(RelayEnqueue(out, FALSE, ControllerThrows(gone), Head(chunks)), gone, Tail(chunks))

\* what start() writes before it reads: the marker if the heartbeat is on,
\* then the preface events
WrapOpening(ms, events) ==
    (IF ms > 0 THEN <<":stream-start">> ELSE <<>>) \o events

\* start(controller) up to the first reader.read()
WrapStart ==
    /\ relay = "wrapSseStream"
    /\ rpc = "init"
    /\ clientOut' = EnqueueAll(clientOut, cancelled, WrapOpening(interval, preface))
    /\ heartbeat' = (interval > 0)
    /\ rpc' = "read"
    /\ UNCHANGED <<kind, hasBody, relay, persisting, written, interval, preface, escaped, texc, upstream,
                   tpc, buffer, reads, tq, rpos, clientClosed, cancelled, beats>>
    /\ UNCHANGED notStream

\* reader.read() yields a chunk: if (value) controller.enqueue(value), which
\* throws to the catch block when the consumer is gone; finally { close }
WrapForward ==
    /\ relay = "wrapSseStream"
    /\ rpc = "read"
    /\ rpos < Len(tq)
    /\ rpos' = rpos + 1
    /\ IF ControllerThrows(cancelled)
       THEN /\ clientOut' = EnqueueAll(clientOut, cancelled, <<"error", "DONE">>)
            /\ heartbeat' = FALSE
            /\ rpc' = "closed"
            /\ escaped' = TRUE
       ELSE /\ clientOut' = Append(clientOut, tq[rpos + 1])
            /\ UNCHANGED <<heartbeat, rpc, escaped>>
    /\ UNCHANGED <<kind, hasBody, relay, persisting, written, interval, preface, texc, upstream,
                   tpc, buffer, reads, tq, clientClosed, cancelled, beats>>
    /\ UNCHANGED notStream

\* reader.read() yields done (the stream ended, or cancel() cancelled the
\* reader): finally { clearInterval; releaseLock; controller.close() }
WrapEnd ==
    /\ relay = "wrapSseStream"
    /\ rpc = "read"
    /\ \/ rpos = Len(tq) /\ tpc = "closed"
       \/ cancelled
    /\ heartbeat' = FALSE
    /\ rpc' = "closed"
    /\ escaped' = ControllerThrows(cancelled)
    /\ UNCHANGED <<kind, hasBody, relay, persisting, written, interval, preface, texc, upstream,
                   tpc, buffer, reads, tq, rpos, clientClosed, cancelled, beats, clientOut>>
    /\ UNCHANGED notStream

\* the interval fires: safeEnqueue(": keep-alive")
WrapHeartbeat ==
    /\ relay = "wrapSseStream"
    /\ heartbeat
    /\ beats < MaxBeats
    /\ clientOut' = EnqueueAll(clientOut, cancelled, <<KEEP_ALIVE>>)
    /\ beats' = beats + 1
    /\ UNCHANGED <<kind, hasBody, relay, persisting, written, interval, preface, escaped, texc, upstream,
                   tpc, buffer, reads, tq, rpc, rpos, clientClosed, cancelled, heartbeat>>
    /\ UNCHANGED notStream

\* the consumer disconnects: cancel(reason) { clearInterval; reader.cancel }
WrapCancel ==
    /\ relay = "wrapSseStream"
    /\ rpc = "read"
    /\ ~cancelled
    /\ cancelled' = TRUE
    /\ heartbeat' = FALSE
    /\ UNCHANGED <<kind, hasBody, relay, persisting, written, interval, preface, escaped, texc, upstream,
                   tpc, buffer, reads, tq, rpc, rpos, clientClosed, beats, clientOut>>
    /\ UNCHANGED notStream

StreamInitFor(r) ==
    /\ kind \in Kinds
    /\ hasBody \in BOOLEAN
    /\ tpc = "start"
    /\ buffer = <<>>
    /\ reads = 0
    /\ tq = <<>>
    /\ rpc = "init"
    /\ rpos = 0
    /\ clientClosed = FALSE
    /\ cancelled = FALSE
    /\ heartbeat = FALSE
    /\ beats = 0
    /\ clientOut = <<>>
    /\ relay = r
    /\ interval \in IF relay = "POST" THEN {HEARTBEAT_MS} ELSE {0, HEARTBEAT_MS}
    /\ preface \in IF relay = "POST" THEN {<<>>} ELSE {<<>>, <<"preface">>}
    /\ escaped = FALSE
    /\ texc = FALSE
    /\ upstream = <<>>
    /\ written = <<>>

\* a request without sessionId or assistantMessageId: persist returns at once
StreamInit == StreamInitFor("POST") /\ persisting = FALSE

\* a request with both
PersistInit == StreamInitFor("POST") /\ persisting = TRUE

WrapInit == StreamInitFor("wrapSseStream") /\ persisting = FALSE

(***************************************************************************)
(* One use of the envelope: encryptSecret, optionally a change to one      *)
(* field of the envelope at rest, then decryptSecret.                      *)
(***************************************************************************)
PlainChars == {SPACE, 97, 233, SURROGATE}
Plaintexts == SeqsUpTo(PlainChars, MaxPlain)

IVs == {[i \in 1..IV_BYTES |-> (k * i) % 256] : k \in 1..NumIVs}

\* symbols a changed field may hold in place of an original one
TamperSymbols == {0, 1, B64PAD}

\* the texts that differ from field by one substituted symbol, by a cut at
\* the end, or by one appended symbol
Tamperings(field) ==
    {[field EXCEPT ![i] = v] : i \in 1..Len(field), v \in TamperSymbols}
    \cup {SubSeq(field, 1, k) : k \in 0..(Len(field) - 1)}
    \cup {Append(field, v) : v \in TamperSymbols}

WithField(envelope, f, text) == Join([Split(envelope) EXCEPT ![f] = text])

\* the settings of the variable: unset, a key of the wrong length, a good key
KeyEnvs == {[set |-> FALSE, bytes |-> 0], [set |-> TRUE, bytes |-> 16],
            [set |-> TRUE, bytes |-> KEY_BYTES]}

\* encryptSecret(plaintext): getKey() comes first
Seal ==
    /\ cpc = "plain"
    /\ IF getKey(keyEnv).ok
       THEN /\ \E iv \in IVs : cenv' = encryptSecret(cplain, iv)
            /\ cpc' = "sealed"
            /\ UNCHANGED cresult
       ELSE /\ cresult' = getKey(keyEnv)
            /\ cpc' = "failed"
            /\ UNCHANGED cenv
    /\ UNCHANGED <<cplain, ctamper, keyEnv>>
    /\ UNCHANGED notCrypto

TamperEnvelope ==
    /\ cpc = "sealed"
    /\ ctamper = 0
    /\ \E f \in {3, 4} :
         \E text \in Tamperings(Split(cenv)[f]) :
            /\ text # Split(cenv)[f]
            /\ cenv' = WithField(cenv, f, text)
            /\ ctamper' = f
    /\ UNCHANGED <<cpc, cplain, cresult, keyEnv>>
    /\ UNCHANGED notCrypto

\* another version in the first field, a field appended, or the last one cut
\* ("v2" is the base64 digits 47 and 54)
ReshapeEnvelope ==
    /\ cpc = "sealed"
    /\ ctamper = 0
    /\ \/ /\ cenv' = WithField(cenv, 1, <<47, 54>>)
          /\ ctamper' = 1
       \/ /\ \E extra \in {<<>>, <<0>>} : cenv' = Join(Append(Split(cenv), extra))
          /\ ctamper' = 5
       \/ /\ cenv' = Join(SubSeq(Split(cenv), 1, 3))
          /\ ctamper' = 5
    /\ UNCHANGED <<cpc, cplain, cresult, keyEnv>>
    /\ UNCHANGED notCrypto

\* decryptSecret(envelope): the format test, then getKey(), then the cipher
Open ==
    /\ cpc = "sealed"
    /\ IF EnvelopeFormatOk(cenv) /\ ~getKey(keyEnv).ok
       THEN /\ cresult' = getKey(keyEnv)
            /\ cpc' = "failed"
       ELSE /\ cresult' = decryptSecret(cenv)
            /\ cpc' = "opened"
    /\ UNCHANGED <<cplain, cenv, ctamper, keyEnv>>
    /\ UNCHANGED notCrypto

CryptoIdle ==
    /\ cpc = "idle"
    /\ cplain = <<>>
    /\ cenv = <<>>
    /\ ctamper = 0
    /\ cresult = Err("")
    /\ keyEnv = [set |-> TRUE, bytes |-> KEY_BYTES]

\* a process starts with any setting of the variable; it has a plaintext to
\* encrypt, or an envelope that a well configured process stored before
CryptoInit ==
    /\ keyEnv \in KeyEnvs
    /\ cplain \in Plaintexts
    /\ \/ cpc = "plain" /\ cenv = <<>>
       \/ cpc = "sealed" /\ \E iv \in IVs : cenv = encryptSecret(cplain, iv)
    /\ ctamper = 0
    /\ cresult = Err("")

StreamIdle ==
    /\ kind = "responses"
    /\ hasBody = FALSE
    /\ tpc = "idle"
    /\ buffer = <<>>
    /\ reads = 0
    /\ tq = <<>>
    /\ rpc = "idle"
    /\ rpos = 0
    /\ clientClosed = FALSE
    /\ cancelled = FALSE
    /\ heartbeat = FALSE
    /\ beats = 0
    /\ clientOut = <<>>
    /\ relay = "POST"
    /\ persisting = FALSE
    /\ interval = HEARTBEAT_MS
    /\ preface = <<>>
    /\ escaped = FALSE
    /\ texc = FALSE
    /\ upstream = <<>>
    /\ written = <<>>

(***************************************************************************)
(* api/keys route: save (POST), list (GET), delete (DELETE), and the load  *)
(* of llm.ts, over the api_keys table                                      *)
(***************************************************************************)
Users     == {"u1", "u2"}
Providers == {"anthropic", "openai"}

\* order("provider", { ascending: true })
ProviderRank(p) == IF p = "anthropic" THEN 1 ELSE 2

MIN_API_KEY_LENGTH == 10
HINT_SUFFIX_LENGTH == 4

Stars == <<STAR, STAR, STAR, STAR>>

\* the apiKey values submitted: a run of one code unit, alone (too short to
\* be accepted) or with the same code unit and a last one after it
KeyChars == {SPACE, 97}
ApiKeys  ==
    {[i \in 1..MidLen |-> m] : m \in KeyChars}
    \cup {[i \in 1..MidLen |-> m] \o <<m, r>> : m \in KeyChars, r \in KeyChars}

\* crypto.randomBytes(12) of the r-th request: a value no other request draws
RequestIV(r) == [i \in 1..IV_BYTES |-> (r * i + 3) % 256]

NoKey == <<-1>>

\* (a hint that shows the whole key)
keyHintWhole(apiKey) == Stars \o Trim(apiKey)

\* keyHint: the redaction marker, then the last 4 code units of the trimmed key
keyHint(apiKey) ==
    LET trimmed == Trim(apiKey) IN
    IF Len(trimmed) <= HINT_SUFFIX_LENGTH THEN Stars
    ELSE Stars \o SliceLast(trimmed, HINT_SUFFIX_LENGTH)

\* UpsertBodySchema.parse: apiKey: z.string().min(10)
UpsertBodyValid(apiKey) == Len(apiKey) >= MIN_API_KEY_LENGTH

Matching(rows, u, p) == {r \in rows : r.user_id = u /\ r.provider = p}

\* (an insert that ignores the unique index)
UpsertInsertOnly(rows, row) == rows \cup {row}

\* upsert(row, { onConflict: "user_id,provider" }): one statement
Upsert(rows, row) ==
    (rows \ Matching(rows, row.user_id, row.provider)) \cup {row}

\* (a delete filtered on the provider alone)
DeleteRowsOfProvider(rows, u, p) == {r \in rows : r.provider # p}

\* delete().eq("user_id", u).eq("provider", p): one statement
DeleteRows(rows, u, p) == rows \ Matching(rows, u, p)

\* (a select that also returns the envelope)
PublicWithEnvelope(r) ==
    [provider |-> r.provider, key_hint |-> r.key_hint, updated_at |-> r.updated_at,
     encrypted_key |-> r.encrypted_key]

\* select("provider,key_hint,updated_at")
Public(r) == [provider |-> r.provider, key_hint |-> r.key_hint, updated_at |-> r.updated_at]

\* select(...).eq("user_id", u).order("provider")
RECURSIVE Ordered(_)
Ordered(rows) ==
    IF rows = {} THEN <<>>
    ELSE LET first == CHOOSE r \in rows :
                         \A o \in rows : ProviderRank(r.provider) <= ProviderRank(o.provider)
         IN <<Public(first)>> \o Ordered(rows \ {first})

ListItems(rows, u) == Ordered({r \in rows : r.user_id = u})

\* llm.ts loadUserApiKey: select encrypted_key ... maybeSingle(), then decrypt
loadUserApiKey(rows, u, p) ==
    LET found == Matching(rows, u, p) IN
    IF Cardinality(found) > 1 THEN Err("multiple rows returned")
    ELSE IF found = {} THEN Err("API key not set for provider")
    ELSE LET data == CHOOSE r \in found : TRUE IN
         IF data.encrypted_key = <<>> THEN Err("API key not set for provider")
         ELSE decryptSecret(data.encrypted_key)

NoResponse == [status |-> 0, kind |-> "none", items |-> <<>>, result |-> Err("")]

FreeReq == [op |-> "none", pc |-> "free", user |-> "", provider |-> "",
            apiKey |-> <<>>, encrypted |-> <<>>, hint |-> <<>>,
            response |-> NoResponse]

Json(status, k, items) == [status |-> status, kind |-> k, items |-> items, result |-> Err("")]

\* (a DELETE that answers 404 when no row matched)
DeleteResponseNotFound(rows, u, p) ==
    IF Matching(rows, u, p) = {} THEN Json(404, "error", <<>>) ELSE Json(200, "ok", <<>>)

\* DELETE: if (error) 500, else Response.json({ ok: true }), whatever matched
DeleteResponse(rows, u, p) == Json(200, "ok", <<>>)

\* POST: the body does not parse: 400
SaveReject(r) ==
    /\ req[r].pc = "free"
    /\ \E u \in Users, p \in Providers, k \in ApiKeys :
          /\ ~UpsertBodyValid(k)
          /\ req' = [req EXCEPT ![r] =
                 [FreeReq EXCEPT !.op = "save", !.pc = "done", !.user = u,
                                 !.provider = p, !.apiKey = k,
                                 !.response = Json(400, "error", <<>>)]]
    /\ UNCHANGED <<store, clock, saved>>
    /\ UNCHANGED notVault

\* POST up to the await: parse, trim, encryptSecret, keyHint
SaveStart(r) ==
    /\ req[r].pc = "free"
    /\ \E u \in Users, p \in Providers, k \in ApiKeys :
          /\ UpsertBodyValid(k)
          /\ req' = [req EXCEPT ![r] =
                 [FreeReq EXCEPT !.op = "save", !.pc = "db", !.user = u,
                                 !.provider = p, !.apiKey = k,
                                 !.encrypted = encryptSecret(Trim(k), RequestIV(r)),
                                 !.hint = keyHint(Trim(k))]]
    /\ UNCHANGED <<store, clock, saved>>
    /\ UNCHANGED notVault

\* POST from the upsert on: the statement, then Response.json({ item })
SaveUpsert(r) ==
    /\ req[r].op = "save" /\ req[r].pc = "db"
    /\ LET row == [user_id |-> req[r].user, provider |-> req[r].provider,
                   encrypted_key |-> req[r].encrypted, key_hint |-> req[r].hint,
                   updated_at |-> clock + 1]
       IN /\ store' = Upsert(store, row)
          /\ req' = [req EXCEPT ![r].pc = "done",
                                ![r].response = Json(200, "item", <<Public(row)>>)]
    /\ clock' = clock + 1
    /\ saved' = [saved EXCEPT ![<<req[r].user, req[r].provider>>] = req[r].apiKey]
    /\ UNCHANGED notVault

\* DELETE up to the await: parse the provider
DeleteStart(r) ==
    /\ req[r].pc = "free"
    /\ \E u \in Users, p \in Providers :
          req' = [req EXCEPT ![r] =
                 [FreeReq EXCEPT !.op = "delete", !.pc = "db", !.user = u, !.provider = p]]
    /\ UNCHANGED <<store, clock, saved>>
    /\ UNCHANGED notVault

\* DELETE from the statement on: Response.json({ ok: true })
DeleteApply(r) ==
    /\ req[r].op = "delete" /\ req[r].pc = "db"
    /\ store' = DeleteRows(store, req[r].user, req[r].provider)
    /\ req' = [req EXCEPT ![r].pc = "done",
                          ![r].response = DeleteResponse(store, req[r].user, req[r].provider)]
    /\ saved' = [saved EXCEPT ![<<req[r].user, req[r].provider>>] = NoKey]
    /\ UNCHANGED clock
    /\ UNCHANGED notVault

\* GET: Response.json({ items })
ListKeys(r) ==
    /\ req[r].pc = "free"
    /\ \E u \in Users :
          req' = [req EXCEPT ![r] =
                 [FreeReq EXCEPT !.op = "list", !.pc = "done", !.user = u,
                                 !.response = Json(200, "items", ListItems(store, u))]]
    /\ UNCHANGED <<store, clock, saved>>
    /\ UNCHANGED notVault

\* loadUserApiKey on behalf of a dispatch
LoadKey(r) ==
    /\ req[r].pc = "free"
    /\ \E u \in Users, p \in Providers :
          req' = [req EXCEPT ![r] =
                 [FreeReq EXCEPT !.op = "load", !.pc = "done", !.user = u, !.provider = p,
                                 !.response = [NoResponse EXCEPT !.kind = "load",
                                       !.result = loadUserApiKey(store, u, p)]]]
    /\ UNCHANGED <<store, clock, saved>>
    /\ UNCHANGED notVault

VaultInit ==
    /\ store = {}
    /\ clock = 0
    /\ req = [r \in 1..MaxReqs |-> FreeReq]
    /\ saved = [k \in Users \X Providers |-> NoKey]

VaultIdle ==
    /\ store = {}
    /\ clock = 0
    /\ req = <<>>
    /\ saved = <<>>

(***************************************************************************)
(* Two runs of the keys route, request by request: the same requests in    *)
(* the same order, the same iv and clock, and only the apiKey of each save *)
(* differing between the runs.                                             *)
(***************************************************************************)
\* what POST stores for an accepted body
\* the user both runs act for
TwinUser == "u1"

\* the apiKeys the two runs submit: a run of one character between two ends
TwinKeys == {<<l>> \o [i \in 1..MidLen |-> m] \o <<r>> : l \in KeyChars, m \in KeyChars, r \in KeyChars}

SaveRow(u, p, apiKey, iv, now) ==
    [user_id |-> u, provider |-> p,
     encrypted_key |-> encryptSecret(Trim(apiKey), iv),
     key_hint |-> keyHint(Trim(apiKey)),
     updated_at |-> now]

TwinSave ==
    /\ Len(respA) < MaxTwinOps
    /\ Count([i \in 1..Len(respA) |-> respA[i].kind], "item") < MaxTwinSaves
    /\ \E p \in Providers, ka \in TwinKeys, kb \in TwinKeys :
          LET u == TwinUser
              iv == RequestIV(clock + 1)
              rowA == SaveRow(u, p, ka, iv, clock + 1)
              rowB == SaveRow(u, p, kb, iv, clock + 1)
          IN /\ UpsertBodyValid(ka) /\ UpsertBodyValid(kb)
             /\ SliceLast(ka, 4) = SliceLast(kb, 4) \/ keyHint(ka) = keyHint(kb)
             /\ store' = Upsert(store, rowA)
             /\ storeB' = Upsert(storeB, rowB)
             /\ respA' = Append(respA, Json(200, "item", <<Public(rowA)>>))
             /\ respB' = Append(respB, Json(200, "item", <<Public(rowB)>>))
             /\ sameLast4' = (sameLast4 /\ SliceLast(ka, 4) = SliceLast(kb, 4))
             /\ sameHint' = (sameHint /\ keyHint(ka) = keyHint(kb))
    /\ clock' = clock + 1
    /\ UNCHANGED notTwin

TwinList ==
    /\ Len(respA) < MaxTwinOps
    /\ respA' = Append(respA, Json(200, "items", ListItems(store, TwinUser)))
    /\ respB' = Append(respB, Json(200, "items", ListItems(storeB, TwinUser)))
    /\ UNCHANGED <<store, storeB, clock, sameLast4, sameHint>>
    /\ UNCHANGED notTwin

TwinDelete ==
    /\ Len(respA) < MaxTwinOps
    /\ \E p \in Providers :
          /\ store' = DeleteRows(store, TwinUser, p)
          /\ storeB' = DeleteRows(storeB, TwinUser, p)
          /\ respA' = Append(respA, DeleteResponse(store, TwinUser, p))
          /\ respB' = Append(respB, DeleteResponse(storeB, TwinUser, p))
    /\ UNCHANGED <<clock, sameLast4, sameHint>>
    /\ UNCHANGED notTwin

TwinInit ==
    /\ store = {}
    /\ clock = 0
    /\ req = <<>>
    /\ saved = <<>>
    /\ storeB = {}
    /\ respA = <<>>
    /\ respB = <<>>
    /\ sameLast4 = TRUE
    /\ sameHint = TRUE

TwinIdle ==
    /\ storeB = {}
    /\ respA = <<>>
    /\ respB = <<>>
    /\ sameLast4 = TRUE
    /\ sameHint = TRUE

(***************************************************************************)
(* Dispatch (sendChat, sendChatStream, LLMClient.send) and fan-out (POST   *)
(* of the compare route, LLMClient.compare)                                *)
(***************************************************************************)
Caller == "u1"

Target(p, m) == [provider |-> p, model |-> m]

\* ProviderSchema of the compare route / ProviderID of LLMKeyVaultKit
RouteTargets  == {Target("openai", "m1"), Target("openai", "m2"), Target("anthropic", "m1")}
ClientTargets == RouteTargets \cup {Target("gemini", "m1")}

\* what the upstream answers to one request
\* (body: a 2xx reply is "full", with a text and a usage block, or "bare",
\* with a null text and no usage block; message: a non-2xx reply carries
\* error.message)
UpstreamReplies ==
    {[status |-> 200, message |-> FALSE, body |-> "full"],
     [status |-> 200, message |-> FALSE, body |-> "bare"],
     [status |-> 401, message |-> TRUE,  body |-> "error"],
     [status |-> 500, message |-> FALSE, body |-> "error"]}

Failure(k, status, message) == Err([kind |-> k, status |-> status, message |-> message])

NoReply == [status |-> 0, message |-> FALSE, body |-> "none"]

NewJob == [pc |-> "new", calls |-> 0, fault |-> FALSE, reply |-> NoReply, outcome |-> Err("")]

\* llm.ts: if (!res.ok) throw new Error(data?.error?.message ?? `... (${res.status})`)
WebOutcome(reply) ==
    IF reply.status >= 200 /\ reply.status < 300
    THEN Ok([text  |-> IF reply.body = "full" THEN "text" ELSE "",
             usage |-> IF reply.body = "full" THEN "usage" ELSE "undefined"])
    ELSE IF reply.message THEN Failure("Error", 0, <<"provider message">>)
    ELSE Failure("Error", 0, <<"request failed", reply.status>>)

\* OpenAIAdapter.send / AnthropicAdapter.send after http.send; the decoder
\* rejects a null where the response type declares a String
AdapterOutcome(reply) ==
    IF reply.status >= 200 /\ reply.status < 300
    THEN IF reply.body = "full"
         THEN Ok([text |-> "text", usage |-> "usage"])
         ELSE Failure("decodingError", 0, <<"valueNotFound">>)
    ELSE IF reply.message THEN Failure("httpError", reply.status, <<"provider message">>)
    ELSE Failure("httpError", reply.status, <<"body">>)

\* sendChat / sendChatStream up to the fetch: loadUserApiKey, then the call
\* (fault: the api_keys query itself returns an error)
WebLoad(rows, t, fault) ==
    LET key == loadUserApiKey(rows, Caller, t.provider) IN
    IF fault
    THEN [NewJob EXCEPT !.pc = "done", !.fault = TRUE,
                        !.outcome = Failure("Error", 0, <<"database error">>)]
    ELSE IF key.ok THEN [NewJob EXCEPT !.pc = "fetch", !.calls = 1]
    ELSE [NewJob EXCEPT !.pc = "done", !.outcome = Failure("Error", 0, <<key.error>>)]

\* KeychainSecretStore.loadSecret succeeds: an item is found and is UTF-8 text
Readable(secrets) == {k.provider : k \in {x \in secrets : x.readable}}

Item(p, readable) == [provider |-> p, readable |-> readable]

\* (a send that loads the secret before it looks for the adapter)
ClientLoadSecretFirst(registry, secrets, t) ==
    IF t.provider \notin Readable(secrets)
    THEN [NewJob EXCEPT !.pc = "done", !.outcome = Failure("missingAPIKey", 0, <<t.provider>>)]
    ELSE IF t.provider \notin registry
    THEN [NewJob EXCEPT !.pc = "done", !.outcome = Failure("missingAdapter", 0, <<t.provider>>)]
    ELSE [NewJob EXCEPT !.pc = "fetch", !.calls = 1]

\* LLMClient.send up to adapter.send: the adapter, then the secret
ClientLoad(registry, secrets, t) ==
    IF t.provider \notin registry
    THEN [NewJob EXCEPT !.pc = "done", !.outcome = Failure("missingAdapter", 0, <<t.provider>>)]
    ELSE IF t.provider \notin Readable(secrets)
    THEN [NewJob EXCEPT !.pc = "done", !.outcome = Failure("missingAPIKey", 0, <<t.provider>>)]
    ELSE [NewJob EXCEPT !.pc = "fetch", !.calls = 1]

\* the start of a dispatch, up to its first suspension
JobLoad(i) ==
    /\ fpc = "running"
    /\ job[i].pc = "new"
    /\ \E fault \in IF entry = "LLMClient.send" THEN {FALSE} ELSE BOOLEAN :
          LET j == IF entry = "LLMClient.send"
                   THEN ClientLoad(adapters, keychain, targets[i])
                   ELSE WebLoad(store, targets[i], fault)
          IN /\ job' = [job EXCEPT ![i] = j]
             /\ order' = IF j.pc = "done" THEN Append(order, i) ELSE order
    /\ UNCHANGED <<entry, targets, adapters, keychain, fpc, results>>
    /\ UNCHANGED notFan

\* LLMClient.register(adapter:): adapters[adapter.id] = adapter.  A dispatch
\* reads the registry once, when it starts; the registrations taken here are
\* those that come before the dispatches of the request start
Register ==
    /\ entry = "LLMClient.send"
    /\ fpc = "running"
    /\ \A i \in DOMAIN job : job[i].pc = "new"
    /\ \E p \in {"anthropic", "gemini"} \ adapters : adapters' = adapters \cup {p}
    /\ UNCHANGED <<entry, targets, keychain, job, order, fpc, results>>
    /\ UNCHANGED notFan

\* the upstream answers: the dispatch completes
JobReply(i) ==
    /\ fpc = "running"
    /\ job[i].pc = "fetch"
    /\ \E reply \in UpstreamReplies :
          job' = [job EXCEPT ![i].pc = "done",
                             ![i].reply = reply,
                             ![i].outcome = IF entry = "LLMClient.send"
                                            THEN AdapterOutcome(reply)
                                            ELSE WebOutcome(reply)]
    /\ order' = Append(order, i)
    /\ UNCHANGED <<entry, targets, adapters, keychain, fpc, results>>
    /\ UNCHANGED notFan

\* one element of the result list
Entry(t, outcome) == [provider |-> t.provider, model |-> t.model, outcome |-> outcome]

\* (Promise.all over jobs that rethrow: the first rejection replaces the list)
RouteResultsRethrowing(ts, jobs, done) ==
    IF \A i \in 1..Len(ts) : jobs[i].outcome.ok
    THEN [i \in 1..Len(ts) |-> Entry(ts[i], jobs[i].outcome)]
    ELSE <<>>

\* compare route: await Promise.all(jobs)
RouteResults(ts, jobs, done) == [i \in 1..Len(ts) |-> Entry(ts[i], jobs[i].outcome)]

\* LLMClient.compare: for await r in group { results.append(r) }
ClientResults(ts, jobs, done) ==
    [k \in 1..Len(done) |-> Entry(ts[done[k]], jobs[done[k]].outcome)]

AllDone == \A i \in DOMAIN job : job[i].pc = "done"

\* POST of the compare route returns Response.json({ results })
RouteReturn ==
    /\ fpc = "running" /\ entry = "sendChat" /\ AllDone
    /\ results' = RouteResults(targets, job, order)
    /\ fpc' = "returned"
    /\ UNCHANGED <<entry, targets, adapters, keychain, job, order>>
    /\ UNCHANGED notFan

\* LLMClient.compare returns results
ClientReturn ==
    /\ fpc = "running" /\ entry = "LLMClient.send" /\ AllDone
    /\ results' = ClientResults(targets, job, order)
    /\ fpc' = "returned"
    /\ UNCHANGED <<entry, targets, adapters, keychain, job, order>>
    /\ UNCHANGED notFan

\* POST of the chat route: the stream, or the catch block's 500
ChatReturn ==
    /\ fpc = "running" /\ entry = "sendChatStream" /\ AllDone
    /\ results' = <<Entry(targets[1], job[1].outcome)>>
    /\ fpc' = IF job[1].outcome.ok THEN "returned" ELSE "raised"
    /\ UNCHANGED <<entry, targets, adapters, keychain, job, order>>
    /\ UNCHANGED notFan

\* the api_keys rows of the caller before the request: per provider none,
\* or one saved by POST of the keys route
SavedStores ==
    {UNION {IF p \in ps THEN {SaveRow(Caller, p, [i \in 1..MIN_API_KEY_LENGTH |-> 97],
                                       RequestIV(ProviderRank(p)), ProviderRank(p))}
            ELSE {} : p \in Providers} : ps \in SUBSET Providers}

\* ways a stored envelope can be unusable: fields missing, a version other
\* than ENVELOPE_PREFIX, a tag that does not authenticate
Damages == {"malformed", "version", "authentication"}

Damaged(envelope, d) ==
    LET parts == Split(envelope) IN
    IF d = "malformed" THEN Join(<<parts[1], parts[2]>>)
    ELSE IF d = "version" THEN Join([parts EXCEPT ![1] = <<47, 54>>])
    ELSE Join([parts EXCEPT ![3] = Base64Encode([i \in 1..TAG_BYTES |-> 0])])

\* the stores in which the openai row of the caller holds an unusable envelope
DamagedStores ==
    {(s \ {row}) \cup {[row EXCEPT !.encrypted_key = Damaged(row.encrypted_key, d)]} :
        s \in SavedStores, row \in Matching(UNION SavedStores, Caller, "openai"), d \in Damages}
    \ SavedStores

FanInit ==
    /\ entry \in {"sendChat", "sendChatStream", "LLMClient.send"}
    /\ targets \in IF entry = "sendChat" THEN SeqsUpTo(RouteTargets, MaxTargets) \ {<<>>}
                   ELSE IF entry = "sendChatStream" THEN [1..1 -> RouteTargets]
                   ELSE SeqsUpTo(ClientTargets, MaxTargets)
    /\ adapters \in IF entry = "LLMClient.send" THEN {{"openai", "anthropic"}, {"openai"}} ELSE {{}}
    /\ keychain \in IF entry = "LLMClient.send"
                    THEN {{Item(p, TRUE) : p \in ps} : ps \in SUBSET {"openai", "anthropic"}}
                         \cup {{Item("openai", FALSE)} \cup {Item(p, TRUE) : p \in ps} :
                                   ps \in SUBSET {"anthropic"}}
                    ELSE {{}}
    /\ store \in IF entry = "LLMClient.send" THEN {{}} ELSE SavedStores \cup DamagedStores
    /\ clock = 0
    /\ req = <<>>
    /\ saved = <<>>
    /\ job = [i \in 1..Len(targets) |-> NewJob]
    /\ order = <<>>
    /\ fpc = "running"
    /\ results = <<>>

FanIdle ==
    /\ entry = "none"
    /\ targets = <<>>
    /\ adapters = {}
    /\ keychain = {}
    /\ job = <<>>
    /\ order = <<>>
    /\ fpc = "idle"
    /\ results = <<>>

(***************************************************************************)
(* Context window manager, and its use by the chat route                   *)
(***************************************************************************)
\* a string is known by the names of its pieces and its length in code units
Str(n, l) == [name |-> <<n>>, length |-> l]

EmptyStr == [name |-> <<>>, length |-> 0]

\* ContentPartSchema: a text part or an image reference
TextPart(t) == [type |-> "text", text |-> t, url |-> ""]

ImagePart(u) == [type |-> "image_url", text |-> EmptyStr, url |-> u]

\* MessageSchema: the content is a string or a non-empty array of parts
StringMessage(r, t) == [role |-> r, form |-> "string", text |-> t, parts |-> <<>>]

PartsMessage(r, ps) == [role |-> r, form |-> "parts", text |-> EmptyStr, parts |-> ps]

Messages ==
    {StringMessage(r, t) : r \in {"user", "assistant"},
                           t \in {Str("short", ShortLen), Str("long", LongLen)}}
    \cup {PartsMessage("user", <<TextPart(Str("caption", CaptionLen)), ImagePart("image")>>)}

Models == {"gpt-5.2-2025-12-11", "gpt-4o"}

\* strings.join("\n")
RECURSIVE JoinLines(_)
JoinLines(ts) ==
    IF ts = <<>> THEN EmptyStr
    ELSE IF Len(ts) = 1 THEN ts[1]
    ELSE LET rest == JoinLines(Tail(ts)) IN
         [name |-> ts[1].name \o <<"\n">> \o rest.name, length |-> ts[1].length + 1 + rest.length]

\* one message in context format: the text parts joined, the image urls aside
toContextMessage(m) ==
    IF m.form = "string"
    THEN [role |-> m.role, content |-> m.text, images |-> <<>>]
    ELSE LET texts  == SelectSeq(m.parts, LAMBDA q : q.type = "text")
             images == SelectSeq(m.parts, LAMBDA q : q.type = "image_url" /\ q.url # "")
         IN  [role    |-> m.role,
              content |-> JoinLines([i \in 1..Len(texts) |-> texts[i].text]),
              images  |-> [i \in 1..Len(images) |-> images[i].url]]

toContextMessages(ms) == [i \in 1..Len(ms) |-> toContextMessage(ms[i])]

\* Math.ceil(text.length / 4)
estimateTokens(text) == (text.length + 3) \div 4

\* (the estimate of a message without the surcharge of its images)
estimateMessageTokensTextOnly(m) == estimateTokens(m.content)

\* tokens += message.images.length * 200
estimateMessageTokens(m) == estimateTokens(m.content) + Len(m.images) * 200

\* messages.reduce((sum, msg) => sum + estimateMessageTokens(msg), 0)
RECURSIVE estimateTotalTokens(_)
estimateTotalTokens(ms) ==
    IF ms = <<>> THEN 0 ELSE estimateMessageTokens(Head(ms)) + estimateTotalTokens(Tail(ms))

\* MODEL_LIMITS[model] ?? MODEL_LIMITS.default
getContextLimit(m) == IF m = "gpt-5.2-2025-12-11" THEN 200000 - 32000 ELSE 168000

\* Math.floor(getContextLimit(model) * 0.8)
getSummarizationThreshold(m) == (getContextLimit(m) * 8) \div 10

needsSummarization(ms, m) == estimateTotalTokens(ms) >= getSummarizationThreshold(m)

\* Array.prototype.slice: a negative index counts from the end; -0 is 0
RelativeIndex(i, n) == IF i < 0 THEN (IF n + i < 0 THEN 0 ELSE n + i) ELSE (IF i > n THEN n ELSE i)

slice(s, start, end) == SubSeq(s, RelativeIndex(start, Len(s)) + 1, RelativeIndex(end, Len(s)))

splitForSummarization(ms, keepLastN) ==
    IF Len(ms) <= keepLastN
    THEN [toSummarize |-> <<>>, toKeep |-> ms]
    ELSE [toSummarize |-> slice(ms, 0, 0 - keepLastN),
          toKeep      |-> slice(ms, 0 - keepLastN, Len(ms))]

\* what summarizeMessages returns from a 2xx response: the text of its
\* message item, or "" if it has none
Summaries == {Str("summary", ShortLen), EmptyStr}

\* the summary, in its constant frame, as a system message before the recent ones
buildMessagesWithSummary(summary, recentMessages) ==
    <<[role |-> "system", content |-> summary, images |-> <<>>]>> \o recentMessages

\* summarizedContext.map((m) => ({ role: m.role, content: m.content }))
toApiMessages(ms) == [i \in 1..Len(ms) |-> StringMessage(ms[i].role, ms[i].content)]

\* if (needsSummarization(contextMessages, body.model))
ContextCheck ==
    /\ xpc = "check"
    /\ xpc' = IF needsSummarization(toContextMessages(messages), chatModel) THEN "load" ELSE "send"
    /\ UNCHANGED <<chatModel, body, messages, step, sent, splits>>
    /\ UNCHANGED notContext

\* (the credential load before the try block)
ContextLoadKeyOutsideTry ==
    /\ xpc = "load"
    /\ \E ok \in BOOLEAN :
        /\ xpc' = IF ok THEN "split" ELSE "failed"
        /\ step' = IF ok THEN step ELSE "load"
    /\ UNCHANGED <<chatModel, body, messages, sent, splits>>
    /\ UNCHANGED notContext

\* try { const apiKey = await loadUserApiKey(user.id) ... } catch { }
ContextLoadKey ==
    /\ xpc = "load"
    /\ \E ok \in BOOLEAN :
        /\ xpc' = IF ok THEN "split" ELSE "send"
        /\ step' = IF ok THEN step ELSE "load"
    /\ UNCHANGED <<chatModel, body, messages, sent, splits>>
    /\ UNCHANGED notContext

\* splitForSummarization(contextMessages, 3); summarizeMessages; messages = ...
\* a non-2xx response ("status") or an unreadable one ("read") ends in catch { }
ContextSummarize ==
    /\ xpc = "split"
    /\ LET split == splitForSummarization(toContextMessages(messages), KEEP_LAST_N) IN
        IF split.toSummarize = <<>>
        THEN UNCHANGED <<messages, step>>
        ELSE \/ \E summary \in Summaries :
                  /\ messages' = toApiMessages(buildMessagesWithSummary(summary, split.toKeep))
                  /\ UNCHANGED step
             \/ \E failure \in {"status", "read"} :
                  /\ step' = failure
                  /\ UNCHANGED messages
    /\ xpc' = "send"
    /\ UNCHANGED <<chatModel, body, sent, splits>>
    /\ UNCHANGED notContext

\* await sendChatStream({ model: body.model, messages, ... })
ContextSend ==
    /\ xpc = "send"
    /\ sent' = Append(sent, messages)
    /\ xpc' = "done"
    /\ UNCHANGED <<chatModel, body, messages, step, splits>>
    /\ UNCHANGED notContext

\* a call of splitForSummarization on the first n messages of a request
CallSplit ==
    /\ xpc = "check"
    /\ \E n \in 0..Len(body), k \in 0..MaxKeep :
        LET list == toContextMessages(SubSeq(body, 1, n)) IN
        splits' = <<[messages |-> list, keepLastN |-> k,
                    returned |-> splitForSummarization(list, k)]>>
    /\ xpc' = "called"
    /\ UNCHANGED <<chatModel, body, messages, step, sent>>
    /\ UNCHANGED notContext

ContextInit ==
    /\ chatModel \in Models
    /\ body \in SeqsUpTo(Messages, MaxMsgs) \ {<<>>}
    /\ messages = body
    /\ xpc = "check"
    /\ step = "none"
    /\ sent = <<>>
    /\ splits = <<>>

ContextIdle ==
    /\ chatModel = "gpt-4o"
    /\ body = <<>>
    /\ messages = <<>>
    /\ xpc = "idle"
    /\ step = "none"
    /\ sent = <<>>
    /\ splits = <<>>

(***************************************************************************)
(* SecretRedactor (ProviderAdapter.swift) and its use by llmkv set-key     *)
(***************************************************************************)
DEFAULT_KEEP_PREFIX == 3
DEFAULT_KEEP_SUFFIX == 4

\* "[REDACTED]"
REDACTED == <<91, 82, 69, 68, 65, 67, 84, 69, 68, 93>>

\* String.prefix(n), String.suffix(n): at most n characters, all if fewer
Prefix(s, n) == SubSeq(s, 1, IF n < Len(s) THEN n ELSE Len(s))

Suffix(s, n) == SubSeq(s, Len(s) - (IF n < Len(s) THEN n ELSE Len(s)) + 1, Len(s))

\* (a mask that shows nothing of a secret its two ends would cover)
maskHidingShort(secret, keepPrefix, keepSuffix) ==
    IF secret = <<>> THEN <<>>
    ELSE IF Len(secret) <= keepPrefix + keepSuffix THEN Stars
    ELSE Prefix(secret, keepPrefix) \o Stars \o Suffix(secret, keepSuffix)

\* SecretRedactor.mask
mask(secret, keepPrefix, keepSuffix) ==
    IF secret = <<>> THEN <<>>
    ELSE Prefix(secret, keepPrefix) \o Stars \o Suffix(secret, keepSuffix)

\* String.replacingOccurrences(of:with:): left to right, without overlap
RECURSIVE replacingOccurrences(_, _, _)
replacingOccurrences(text, target, replacement) ==
    IF Len(text) < Len(target) THEN text
    ELSE IF SubSeq(text, 1, Len(target)) = target
         THEN replacement \o replacingOccurrences(SubSeq(text, Len(target) + 1, Len(text)),
                                                  target, replacement)
         ELSE <<Head(text)>> \o replacingOccurrences(Tail(text), target, replacement)

\* SecretRedactor.redact: for s in secrets where !s.isEmpty, one after another
RECURSIVE redact(_, _)
redact(text, secrets) ==
    IF secrets = <<>> THEN text
    ELSE redact(IF Head(secrets) = <<>> THEN text
                ELSE replacingOccurrences(text, Head(secrets), REDACTED),
                Tail(secrets))

\* the secrets given to mask: n different characters, or n stars
MaskSecrets ==
    {[i \in 1..n |-> 96 + i] : n \in 0..MaxSecret} \cup {[i \in 1..n |-> STAR] : n \in 1..MaxSecret}

\* the characters of the texts and secrets given to redact: "a" and "E"
RedactChars == {97, 69}

MaskCalls ==
    {[fn |-> "mask", secret |-> s, keepPrefix |-> a, keepSuffix |-> b] :
        s \in MaskSecrets, a \in 0..MaxShown, b \in 0..MaxShown}

RedactCalls ==
    {[fn |-> "redact", text |-> t, secrets |-> l] :
        t \in SeqsUpTo(RedactChars, MaxText),
        l \in SeqsUpTo(SeqsUpTo(RedactChars, MaxSecretLen), MaxSecrets)}

SetKeyCalls == {[fn |-> "set-key", key |-> s] : s \in MaskSecrets}

Mask ==
    /\ call.fn = "mask" /\ returned = <<>>
    /\ returned' = <<mask(call.secret, call.keepPrefix, call.keepSuffix)>>
    /\ UNCHANGED call
    /\ UNCHANGED notCall

Redact ==
    /\ call.fn = "redact" /\ returned = <<>>
    /\ returned' = <<redact(call.text, call.secrets)>>
    /\ UNCHANGED call
    /\ UNCHANGED notCall

\* llmkv set-key <provider> <apiKey>: saveSecret, then print the mask of the
\* key, or the failure if saveSecret threw
SetKey ==
    /\ call.fn = "set-key" /\ returned = <<>>
    /\ \E threw \in BOOLEAN :
          returned' = <<IF threw
                        THEN [line |-> "Failed to save key", masked |-> <<>>]
                        ELSE [line |-> "Saved key",
                              masked |-> mask(call.key, DEFAULT_KEEP_PREFIX,
                                              DEFAULT_KEEP_SUFFIX)]>>
    /\ UNCHANGED call
    /\ UNCHANGED notCall

RedactorInit ==
    /\ call \in MaskCalls \cup RedactCalls \cup SetKeyCalls
    /\ returned = <<>>

(***************************************************************************)
(* The request bodies built for Anthropic (splitSystem, llm.ts;            *)
(* splitSystemMessages, AnthropicAdapter) and for OpenAI (llm.ts)          *)
(***************************************************************************)
Roles == {"system", "user", "assistant"}

\* the contents of a message: "", "a" or "b"
Contents == {<<>>, <<97>>, <<98>>}

ChatMessages == [role : Roles, content : Contents]

\* "\n\n"
BLANK_LINE == <<10, 10>>

\* Array.join / joined(separator:)
RECURSIVE joined(_, _)
joined(parts, separator) ==
    IF parts = <<>> THEN <<>>
    ELSE IF Len(parts) = 1 THEN parts[1]
    ELSE parts[1] \o separator \o joined(Tail(parts), separator)

\* a field of a JSON body: left out, or there with a value
Absent == [present |-> FALSE, value |-> <<>>]

Present(v) == [present |-> TRUE, value |-> v]

ContentsOf(ms) == [i \in 1..Len(ms) |-> ms[i].content]

\* (no filter of the empty contents)
keepAll(parts) == parts

\* .filter(Boolean) on strings: the empty string is dropped
filterBoolean(parts) == SelectSeq(parts, LAMBDA c : c # <<>>)

\* splitSystem (llm.ts)
splitSystem(ms) ==
    LET systemParts == filterBoolean(ContentsOf(SelectSeq(ms, LAMBDA m : m.role = "system")))
        rest == SelectSeq(ms, LAMBDA m : m.role # "system")
    IN [system |-> IF Len(systemParts) # 0 THEN Present(joined(systemParts, BLANK_LINE))
                   ELSE Absent,
        messages |-> [i \in 1..Len(rest) |->
                        [role |-> IF rest[i].role = "assistant" THEN "assistant" ELSE "user",
                         content |-> rest[i].content]]]

\* AnthropicAdapter.splitSystemMessages
splitSystemMessages(ms) ==
    LET systemParts == SelectSeq(ContentsOf(SelectSeq(ms, LAMBDA m : m.role = "system")),
                                 LAMBDA c : Len(c) # 0)
        rest == SelectSeq(ms, LAMBDA m : m.role # "system")
    IN [system |-> IF systemParts = <<>> THEN Absent
                   ELSE Present(joined(systemParts, BLANK_LINE)),
        messages |-> rest]

\* the body of POST /v1/messages: JSON.stringify leaves an undefined system
\* out, and JSONEncoder a nil one
AnthropicBody(split, streaming) ==
    [system |-> split.system,
     messages |-> [i \in 1..Len(split.messages) |->
                     [role |-> split.messages[i].role, content |-> split.messages[i].content]],
     stream |-> streaming]

AnthropicEntries == {"callAnthropicStream", "callAnthropicNonStream", "AnthropicAdapter.send"}

\* model names, cut so that "gpt-5", "o1" and "o3" are one piece where they occur
OpenAIModels == {<<"gpt-4o">>, <<"gpt-4.1">>, <<"gpt-5", ".2">>, <<"o1", "-mini">>, <<"o3">>}

Undefined == "undefined"

ReasoningEfforts == {Undefined, "none", "low"}

Verbosities == {Undefined, "low"}

\* params.model.includes("gpt-5") || .includes("o1") || .includes("o3")
isReasoningModel(model) ==
    Includes(model, <<"gpt-5">>) \/ Includes(model, <<"o1">>) \/ Includes(model, <<"o3">>)

\* callOpenAINonStream: reasoning_effort and verbosity of the body
callOpenAINonStream(params) ==
    [api |-> "chat/completions",
     reasoning |-> IF isReasoningModel(params.model) /\ params.reasoningEffort # Undefined
                   THEN params.reasoningEffort ELSE Undefined,
     verbosity |-> params.verbosity]

\* callOpenAIResponsesStream: reasoning.effort and text.verbosity of the body
callOpenAIResponsesStream(params) ==
    [api |-> "responses", reasoning |-> params.reasoningEffort, verbosity |-> params.verbosity]

\* callOpenAIChatCompletionsStream: model, messages, temperature, max_tokens
callOpenAIChatCompletionsStream(params) ==
    [api |-> "chat/completions", reasoning |-> Undefined, verbosity |-> Undefined]

callOpenAIStream(params) ==
    IF isReasoningModel(params.model) THEN callOpenAIResponsesStream(params)
    ELSE callOpenAIChatCompletionsStream(params)

AnthropicCalls ==
    {[fn |-> "anthropic", entry |-> e, messages |-> ms] :
        e \in AnthropicEntries, ms \in SeqsUpTo(ChatMessages, MaxTurns)}

OpenAICalls ==
    {[fn |-> "openai", streaming |-> s, model |-> m, reasoningEffort |-> e, verbosity |-> v] :
        s \in BOOLEAN, m \in OpenAIModels, e \in ReasoningEfforts, v \in Verbosities}

CallAnthropic ==
    /\ call.fn = "anthropic" /\ returned = <<>>
    /\ returned' =
          <<IF call.entry = "AnthropicAdapter.send"
            THEN AnthropicBody(splitSystemMessages(call.messages), FALSE)
            ELSE AnthropicBody(splitSystem(call.messages), call.entry = "callAnthropicStream")>>
    /\ UNCHANGED call
    /\ UNCHANGED notCall

CallOpenAI ==
    /\ call.fn = "openai" /\ returned = <<>>
    /\ returned' = <<IF call.streaming THEN callOpenAIStream(call)
                     ELSE callOpenAINonStream(call)>>
    /\ UNCHANGED call
    /\ UNCHANGED notCall

RequestInit ==
    /\ call \in AnthropicCalls \cup OpenAICalls
    /\ returned = <<>>

CallIdle ==
    /\ call = [fn |-> "none"]
    /\ returned = <<>>

(***************************************************************************)
(* Specifications                                                          *)
(***************************************************************************)
StreamNext ==
    \/ TranslatorStart
    \/ TranslatorChunk
    \/ TranslatorEnd
    \/ TranslatorFail
    \/ RelayStart
    \/ RelayForward
    \/ RelayEnd
    \/ Heartbeat
    \/ ClientCancel

WrapNext ==
    \/ TranslatorStart
    \/ TranslatorChunk
    \/ TranslatorEnd
    \/ TranslatorFail
    \/ WrapStart
    \/ WrapForward
    \/ WrapEnd
    \/ WrapHeartbeat
    \/ WrapCancel

WrapBegin == WrapInit /\ CryptoIdle /\ VaultIdle /\ TwinIdle /\ FanIdle /\ ContextIdle /\ CallIdle

SpecWrap == WrapBegin /\ [][WrapNext]_vars

StreamStart == StreamInit /\ CryptoIdle /\ VaultIdle /\ TwinIdle /\ FanIdle /\ ContextIdle /\ CallIdle

SpecStream == StreamStart /\ [][StreamNext]_vars

PersistNext == StreamNext \/ PersistDone

PersistStart == PersistInit /\ CryptoIdle /\ VaultIdle /\ TwinIdle /\ FanIdle /\ ContextIdle /\ CallIdle

SpecPersist == PersistStart /\ [][PersistNext]_vars

CryptoNext == Seal \/ TamperEnvelope \/ ReshapeEnvelope \/ Open

CryptoStart == CryptoInit /\ StreamIdle /\ VaultIdle /\ TwinIdle /\ FanIdle /\ ContextIdle /\ CallIdle

SpecCrypto == CryptoStart /\ [][CryptoNext]_vars

VaultNext ==
    \E r \in 1..MaxReqs :
        \/ SaveReject(r)
        \/ SaveStart(r)
        \/ SaveUpsert(r)
        \/ DeleteStart(r)
        \/ DeleteApply(r)
        \/ ListKeys(r)
        \/ LoadKey(r)

VaultStart == VaultInit /\ StreamIdle /\ CryptoIdle /\ TwinIdle /\ FanIdle /\ ContextIdle /\ CallIdle

SpecVault == VaultStart /\ [][VaultNext]_vars

TwinNext == TwinSave \/ TwinList \/ TwinDelete

TwinStart == TwinInit /\ StreamIdle /\ CryptoIdle /\ FanIdle /\ ContextIdle /\ CallIdle

SpecTwin == TwinStart /\ [][TwinNext]_vars

FanNext ==
    \/ \E i \in DOMAIN job : JobLoad(i)
    \/ \E i \in DOMAIN job : JobReply(i)
    \/ RouteReturn
    \/ ClientReturn
    \/ ChatReturn
    \/ Register

FanStart == FanInit /\ StreamIdle /\ CryptoIdle /\ TwinIdle /\ ContextIdle /\ CallIdle

SpecFan == FanStart /\ [][FanNext]_vars

ContextNext ==
    \/ ContextCheck
    \/ ContextLoadKey
    \/ ContextSummarize
    \/ ContextSend
    \/ CallSplit

ContextStart == ContextInit /\ StreamIdle /\ CryptoIdle /\ VaultIdle /\ TwinIdle /\ FanIdle /\ CallIdle

SpecContext == ContextStart /\ [][ContextNext]_vars

RedactorNext == Mask \/ Redact \/ SetKey

RedactorStart ==
    RedactorInit /\ StreamIdle /\ CryptoIdle /\ VaultIdle /\ TwinIdle /\ FanIdle /\ ContextIdle

SpecRedactor == RedactorStart /\ [][RedactorNext]_vars

RequestNext == CallAnthropic \/ CallOpenAI

RequestStart ==
    RequestInit /\ StreamIdle /\ CryptoIdle /\ VaultIdle /\ TwinIdle /\ FanIdle /\ ContextIdle

SpecRequest == RequestStart /\ [][RequestNext]_vars

(***************************************************************************)
(* C1: every translated stream, and what the relay forwards of it to a     *)
(* consumer that stays connected, contains exactly one done marker, and    *)
(* that marker is the last item before the stream closes.                  *)
(***************************************************************************)
OneDoneLast(s) == Count(s, "DONE") = 1 /\ Last(s) = "DONE"

C1_ExactlyOneDoneLast ==
    /\ tpc = "closed" => OneDoneLast(tq)
    /\ (rpc = "closed" /\ ~cancelled) => OneDoneLast(SelectData(clientOut))

(***************************************************************************)
(* C4: for every plaintext p of any length >= 0,                           *)
(* decryptSecret(encryptSecret(p)) returns exactly p.                      *)
(***************************************************************************)
C4_RoundTrip ==
    (cpc = "opened" /\ ctamper = 0) => cresult = Ok(cplain)

(***************************************************************************)
(* C5: an envelope that differs from the one encryptSecret produced only   *)
(* in its tag field or only in its ciphertext field makes decryptSecret    *)
(* end in an error; it returns no plaintext at all.                        *)
(***************************************************************************)
C5_TamperedFails ==
    (cpc = "opened" /\ ctamper \in {3, 4}) => ~cresult.ok

(***************************************************************************)
(* C6: after a save of apiKey x for (user, provider) has been applied, and *)
(* until another save or delete for that pair is applied, the load for the *)
(* pair returns exactly x.                                                 *)
(***************************************************************************)
C6_LoadReturnsSaved ==
    \A k \in Users \X Providers :
        saved[k] # NoKey => loadUserApiKey(store, k[1], k[2]) = Ok(saved[k])

(***************************************************************************)
(* C7: in every state reached by interleaved saves and deletes, the store  *)
(* holds at most one record per (user, provider), and the envelope and the *)
(* hint of each record both come from one and the same save.               *)
(***************************************************************************)
FromOneSave(row) ==
    \E r \in DOMAIN req :
        /\ req[r].op = "save"
        /\ req[r].user = row.user_id /\ req[r].provider = row.provider
        /\ req[r].encrypted = row.encrypted_key
        /\ req[r].hint = row.key_hint

C7_OneRecordFromOneSave ==
    \A row \in store :
        /\ Cardinality(Matching(store, row.user_id, row.provider)) = 1
        /\ FromOneSave(row)

\* a second save for the same pair, with another key, has replaced the first
C7_Witness ==
    \E r1, r2 \in DOMAIN req :
        /\ req[r1].op = "save" /\ req[r1].pc = "done" /\ req[r1].response.status = 200
        /\ req[r2].op = "save" /\ req[r2].pc = "done" /\ req[r2].response.status = 200
        /\ req[r1].user = req[r2].user /\ req[r1].provider = req[r2].provider
        /\ req[r1].hint # req[r2].hint
        /\ Matching(store, req[r1].user, req[r1].provider) # {}

(***************************************************************************)
(* C9 as stated: the stored hint is "****" followed by at most the last 4  *)
(* characters of the accepted apiKey, and never contains the whole apiKey. *)
(***************************************************************************)
IsSuffix(t, s) == Len(t) <= Len(s) /\ SubSeq(s, Len(s) - Len(t) + 1, Len(s)) = t

HintShowsSuffixOf(hint, text) ==
    /\ Len(hint) >= Len(Stars) /\ Len(hint) <= Len(Stars) + HINT_SUFFIX_LENGTH
    /\ SubSeq(hint, 1, Len(Stars)) = Stars
    /\ IsSuffix(SubSeq(hint, Len(Stars) + 1, Len(hint)), text)

PublicFields == {"provider", "key_hint", "updated_at"}

\* every item of every response has the public fields only, and a hint too
\* short to hold an accepted apiKey or an envelope
NoSecretIn(resp) ==
    \A i \in 1..Len(resp) : \A j \in 1..Len(resp[i].items) :
        /\ DOMAIN resp[i].items[j] = PublicFields
        /\ Len(resp[i].items[j].key_hint) < MIN_API_KEY_LENGTH

Compared == fpc = "returned" /\ entry \in {"sendChat", "LLMClient.send"}

\* no credential record exists for the (user, provider) of target i
NoCredential(i) ==
    IF entry = "LLMClient.send" THEN \A k \in keychain : k.provider # targets[i].provider
    ELSE Matching(store, Caller, targets[i].provider) = {}

\* a credential is stored for target i, and it cannot be opened
Unusable(i) ==
    IF entry = "LLMClient.send"
    THEN ~NoCredential(i) /\ targets[i].provider \notin Readable(keychain)
    ELSE \E row \in Matching(store, Caller, targets[i].provider) :
            ~decryptSecret(row.encrypted_key).ok

Registered(i) == entry = "LLMClient.send" => targets[i].provider \in adapters

\* the dispatch of target i fails, by its own credential, lookup or upstream reply
Fails(i) ==
    \/ NoCredential(i)
    \/ Unusable(i)
    \/ ~Registered(i)
    \/ job[i].fault
    \/ job[i].reply.status # 200
    \/ entry = "LLMClient.send" /\ job[i].reply.body = "bare"

MissingCredentialError(outcome) ==
    /\ ~outcome.ok
    /\ \/ outcome.error.kind = "missingAPIKey"
       \/ outcome.error.message = <<"API key not set for provider">>

(***************************************************************************)
(* C2: for every target list t and every completion order of the           *)
(* dispatches, compare returns a list r with Len(r) = Len(t) and           *)
(* r[i].provider = t[i].provider, r[i].model = t[i].model at every i.      *)
(***************************************************************************)
C2_ResultsInTargetOrder ==
    Compared =>
        /\ Len(results) = Len(targets)
        /\ \A i \in 1..Len(targets) :
              /\ results[i].provider = targets[i].provider
              /\ results[i].model = targets[i].model

(***************************************************************************)
(* C3: compare completes without raising; its results are the targets,     *)
(* one for one, a failure outcome for exactly the targets whose own        *)
(* dispatch fails and a success outcome for every other target, whatever   *)
(* the other targets' outcomes, completion order or positions.             *)
(***************************************************************************)
C3_FailureExactlyForFailingTargets ==
    /\ entry \in {"sendChat", "LLMClient.send"} => fpc # "raised"
    /\ Compared =>
          /\ Len(results) = Len(targets)
          /\ \E pi \in Permutations(1..Len(targets)) :
                \A k \in 1..Len(targets) :
                   /\ results[k].provider = targets[pi[k]].provider
                   /\ results[k].model = targets[pi[k]].model
                   /\ results[k].outcome.ok = ~Fails(pi[k])

\* two targets, one failing and one succeeding, the failing one first in the list
C3_Witness ==
    /\ Compared
    /\ Len(targets) = 2
    /\ Fails(1) /\ ~Fails(2)
    /\ order = <<2, 1>>

(***************************************************************************)
(* C10: when no credential record exists for the request's                 *)
(* (user, provider), dispatch ends with a missing-credential error, and no *)
(* HTTP request to the upstream is issued before it.                       *)
(***************************************************************************)
C10_MissingCredentialNoRequest ==
    \A i \in DOMAIN job :
       NoCredential(i) =>
          /\ job[i].calls = 0
          /\ job[i].pc = "done" => MissingCredentialError(job[i].outcome)

(***************************************************************************)
(* C11: a dispatch whose stored envelope is malformed, has an unknown      *)
(* version or fails authentication ends with exactly the error (kind,      *)
(* status, message) of the same dispatch with no credential stored.        *)
(***************************************************************************)
WithoutCredential(i) ==
    IF entry = "LLMClient.send"
    THEN ClientLoad(adapters, {}, targets[i]).outcome
    ELSE WebLoad(DeleteRows(store, Caller, targets[i].provider), targets[i], FALSE).outcome

C11_UnusableLooksMissing ==
    \A i \in DOMAIN job :
       (Unusable(i) /\ ~job[i].fault /\ job[i].pc = "done") =>
          job[i].outcome = WithoutCredential(i)

(***************************************************************************)
(* C12: a dispatch whose provider has no registered adapter ends with      *)
(* missingAdapter (UnsupportedProvider), and it issues no network call at  *)
(* any point before that error.                                            *)
(***************************************************************************)
C12_UnregisteredEndsUnsupported ==
    \A i \in DOMAIN job :
       ~Registered(i) =>
          /\ job[i].calls = 0
          /\ job[i].pc # "fetch"
          /\ job[i].pc = "done" =>
                /\ ~job[i].outcome.ok
                /\ job[i].outcome.error.kind = "missingAdapter"
                /\ job[i].outcome.error.message = <<targets[i].provider>>

\* an unregistered dispatch with a stored secret has ended, while another
\* dispatch of the same compare has called its upstream
C12_Witness ==
    \E i \in DOMAIN job :
       /\ ~Registered(i) /\ ~NoCredential(i) /\ job[i].pc = "done"
       /\ \E k \in DOMAIN job : job[k].calls = 1

(***************************************************************************)
(* C13: when the upstream read fails mid-stream, the emitted stream holds  *)
(* exactly one error event, the item right after it is the done marker,    *)
(* and nothing follows the (first) done marker.                            *)
(***************************************************************************)
ErrorThenDoneThenStop(s) ==
    /\ Count(s, "error") = 1
    /\ \E i \in 1..Len(s) :
          /\ s[i] = "error"
          /\ i + 1 = Len(s)
          /\ s[i + 1] = "DONE"
    /\ \A i \in 1..Len(s) : s[i] = "DONE" => i = Len(s)

C13_ErrorThenDone ==
    /\ (texc /\ tpc = "closed") => ErrorThenDoneThenStop(tq)
    /\ (texc /\ rpc = "closed" /\ ~cancelled) => ErrorThenDoneThenStop(SelectData(clientOut))

(***************************************************************************)
(* The upstream as received: its newline-terminated lines                  *)
(***************************************************************************)
ReceivedLines ==
    LET lines == SplitLines(upstream) IN SubSeq(lines, 1, Len(lines) - 1)

\* a data line whose payload is no JSON document
Unparsable(line) ==
    StartsWithData(normalizeSseLine(line)) /\ LineClass(normalizeSseLine(line)) = "BAD"

(***************************************************************************)
(* C14: every upstream data line that cannot be parsed into an event       *)
(* results in an error event in the output stream, which then ends; none   *)
(* is skipped while the stream continues.                                  *)
(***************************************************************************)
C14_UnparsableLineIsAnError ==
    (\E i \in 1..Len(ReceivedLines) : Unparsable(ReceivedLines[i])) =>
        /\ Count(tq, "error") >= 1
        /\ tpc = "closed"

(***************************************************************************)
(* C15: once the consumer has disconnected, every later write of the relay *)
(* (forwarded event, keep-alive marker, terminal marker, close) is dropped *)
(* and no exception escapes the relay.                                     *)
(***************************************************************************)
C15_WritesDroppedNothingEscapes ==
    /\ [][cancelled => clientOut' = clientOut]_vars
    /\ [](~escaped)

(***************************************************************************)
(* C16: within one stream, the text and thinking events delivered to the   *)
(* consumer are, in order, exactly the text and thinking deltas received   *)
(* from the upstream: none reordered, merged, or held back behind a later  *)
(* event.                                                                  *)
(***************************************************************************)
IsDeltaEvent(x) == x \in {"text", "thinking"}

DeltaEvents(s) == SelectSeq(s, IsDeltaEvent)

\* the delta a received line carries, if any
DeltaOf(k, line) ==
    LET c == LineClass(normalizeSseLine(line)) IN
    IF c = "TXT" THEN <<"text">>
    ELSE IF c = "THK" /\ k # "chatcompletions" THEN <<"thinking">>
    ELSE <<>>

RECURSIVE DeltasOf(_, _)
DeltasOf(k, lines) ==
    IF lines = <<>> THEN <<>> ELSE DeltaOf(k, Head(lines)) \o DeltasOf(k, Tail(lines))

IsPrefix(a, b) == Len(a) <= Len(b) /\ SubSeq(b, 1, Len(a)) = a

C16_DeltasInOrder ==
    LET received  == DeltasOf(kind, ReceivedLines)
        produced  == DeltaEvents(tq)
        delivered == DeltaEvents(clientOut)
    IN  /\ produced = received
        /\ IF clientClosed
           THEN IsPrefix(delivered, produced)
           ELSE delivered = DeltaEvents(SubSeq(tq, 1, rpos))
        /\ (rpc = "closed" /\ ~clientClosed) => delivered = received

\* a text and a thinking delta, received in two reads, have been delivered
\* and a keep-alive has fired
C16_Witness ==
    /\ rpc = "closed" /\ ~clientClosed
    /\ reads = 2
    /\ upstream = <<"TXT", "NL", "THK", "NL">>
    /\ beats = 1
    /\ DeltaEvents(clientOut) = <<"text", "thinking">>

(***************************************************************************)
(* What a parser of the event stream extracts from the relay output        *)
(***************************************************************************)
\* every chunk the relay writes is one block of text closed by a blank line
RECURSIVE Wire(_)
Wire(out) == IF out = <<>> THEN <<>> ELSE <<Head(out), "EOB">> \o Wire(Tail(out))

\* the blocks of the wire, split at the blank lines
RECURSIVE Blocks(_, _)
Blocks(wire, open) ==
    IF wire = <<>> THEN <<>>
    ELSE IF Head(wire) = "EOB" THEN <<open>> \o Blocks(Tail(wire), <<>>)
    ELSE Blocks(Tail(wire), Append(open, Head(wire)))

\* a block whose lines all start with a colon is a comment, not an event
IsEvent(block) == \E i \in 1..Len(block) : block[i] \notin {":stream-start", ":keep-alive"}

ParseEvents(out) == SelectSeq(Blocks(Wire(out), <<>>), IsEvent)

EventsOf(items) == [i \in 1..Len(items) |-> <<items[i]>>]

(***************************************************************************)
(* C17: for every interleaving of keep-alive firings with the forwarding   *)
(* of events, the Stream Events a parser extracts from the relay output    *)
(* are the events forwarded, as when no keep-alive fires; a keep-alive is  *)
(* never written inside an event.                                          *)
(***************************************************************************)
C17_KeepAliveInvisible ==
    LET events == ParseEvents(clientOut) IN
    /\ IF clientClosed
       THEN IsPrefix(events, EventsOf(tq))
       ELSE events = EventsOf(SubSeq(tq, 1, rpos))
    /\ beats > 0 => events = ParseEvents(SelectSeq(clientOut, LAMBDA x : x # KEEP_ALIVE))

\* a keep-alive has been written between two forwarded events
C17_Witness ==
    \E i \in 2..(Len(clientOut) - 1) :
        /\ clientOut[i] = KEEP_ALIVE
        /\ clientOut[i - 1] = "text"
        /\ clientOut[i + 1] \in {"text", "thinking"}

(***************************************************************************)
(* C18: for every relayed stream and every value of the relay options, the *)
(* first item written to the consumer is the stream-start marker, before   *)
(* every preface event and every Stream Event.                             *)
(***************************************************************************)
C18_StreamStartFirst ==
    clientOut # <<>> => clientOut[1] = ":stream-start"

(***************************************************************************)
(* C19: if a step of summarization fails (the credential load, a non-2xx   *)
(* summarization call, reading its response), the chat request is still    *)
(* dispatched with the original, uncompressed messages, and no error is    *)
(* returned to the caller because of the failure.                          *)
(***************************************************************************)
C19_FailedSummarizationFallsBack ==
    /\ xpc # "failed"
    /\ step # "none" =>
        /\ messages = body
        /\ xpc \in {"send", "done"}
        /\ xpc = "done" => sent = <<body>>

\* the summarization response of a request of four messages could not be
\* read, and the request has been dispatched
C19_Witness ==
    /\ xpc = "done"
    /\ step = "read"
    /\ Len(body) = 4
    /\ sent = <<body>>

(***************************************************************************)
(* C20: for every message list of length n and every keepLastN >= 0,       *)
(* splitForSummarization returns toKeep equal to the last min(keepLastN,   *)
(* n) messages of the list, unmodified and in their original order.        *)
(***************************************************************************)
C20_KeepsLastMin ==
    \A i \in DOMAIN splits :
        LET n == Len(splits[i].messages)
            k == IF splits[i].keepLastN < n THEN splits[i].keepLastN ELSE n
        IN  splits[i].returned.toKeep = SubSeq(splits[i].messages, n - k + 1, n)

(***************************************************************************)
(* The estimate of a request's messages as the contract words it           *)
(***************************************************************************)
\* the characters of a message's text, and the number of its images
Characters(m) ==
    IF m.form = "string" THEN m.text.length ELSE toContextMessage(m).content.length

ImageCount(m) == Cardinality({i \in DOMAIN m.parts : m.parts[i].type = "image_url"})

CeilQuarter(n) == IF n % 4 = 0 THEN n \div 4 ELSE n \div 4 + 1

RECURSIVE EstimatedTotal(_)
EstimatedTotal(ms) ==
    IF ms = <<>> THEN 0
    ELSE CeilQuarter(Characters(Head(ms))) + 200 * ImageCount(Head(ms)) + EstimatedTotal(Tail(ms))

(***************************************************************************)
(* C21: needsSummarization is true if and only if the estimated token      *)
(* total (ceil(characters/4) per message plus 200 per image, summed) is at *)
(* least floor(0.8 x the model's context limit).                           *)
(***************************************************************************)
C21_NeededIffAtThreshold ==
    [][(xpc = "check" /\ xpc' \in {"load", "send"}) =>
        (xpc' = "load" <=> 10 * EstimatedTotal(messages) >= 8 * getContextLimit(chatModel)
                              - ((8 * getContextLimit(chatModel)) % 10))]_vars

\* summarization is needed for a long message and an image with a caption,
\* which reach the threshold by the surcharge of the image only
C21_Witness ==
    /\ xpc = "load"
    /\ Len(body) = 2
    /\ \E i \in 1..2 : body[i].form = "parts"

(***************************************************************************)
(* C22: when compression is triggered on a history of n > keepLastN        *)
(* messages and summarization succeeds, the list sent upstream is exactly  *)
(* one summary system message followed by the last keepLastN messages, so  *)
(* its length is keepLastN + 1.                                            *)
(***************************************************************************)
Summarized == xpc = "done" /\ sent[1][1].role = "system"

C22_SummaryThenLastMessages ==
    Summarized =>
        /\ Len(sent[1]) = KEEP_LAST_N + 1
        /\ sent[1][1].form = "string" /\ sent[1][1].text \in Summaries
        /\ SubSeq(sent[1], 2, Len(sent[1])) = SubSeq(body, Len(body) - KEEP_LAST_N + 1, Len(body))

(***************************************************************************)
(* C23: compression leaves the most recent keepLastN messages verbatim:    *)
(* each kept message sent upstream has the same role and the same ordered  *)
(* content parts (text and image references) as the corresponding message  *)
(* of the original request.                                                *)
(***************************************************************************)
\* a string content is the one text part it stands for
PartsOf(m) == IF m.form = "string" THEN <<TextPart(m.text)>> ELSE m.parts

C23_KeptMessagesVerbatim ==
    Summarized =>
        \A i \in 1..(Len(sent[1]) - 1) :
            LET kept     == sent[1][i + 1]
                original == body[Len(body) - (Len(sent[1]) - 1) + i]
            IN  kept.role = original.role /\ PartsOf(kept) = PartsOf(original)

(***************************************************************************)
(* C24: decryptSecret accepts an envelope only if it consists of exactly 4 *)
(* colon-delimited fields whose first field is 'v1'; every envelope with   *)
(* another version or another number of fields is rejected with a format   *)
(* error, without attempting decryption.                                   *)
(***************************************************************************)
C24_OnlyFourFieldsV1 ==
    cpc = "opened" =>
        \/ Len(Split(cenv)) = 4 /\ Split(cenv)[1] = ENVELOPE_PREFIX
        \/ cresult = Err("Invalid secret envelope format")

(***************************************************************************)
(* C30: the encryption key is read and validated once at process startup:  *)
(* a missing, malformed or wrong-length key prevents startup, and no call  *)
(* of encryptSecret or decryptSecret ever ends in a key-configuration      *)
(* error.                                                                  *)
(***************************************************************************)
C30_NoKeyErrorInACall ==
    cpc # "failed" /\ (~cresult.ok => cresult # getKey(keyEnv))

(***************************************************************************)
(* C25: for every non-2xx upstream response, the error raised by the       *)
(* adapter and surfaced to the caller carries the upstream HTTP status     *)
(* code together with the provider-supplied message, so that 401/403, 429  *)
(* and 5xx yield caller-visible errors that differ by status.              *)
(***************************************************************************)
C25_ErrorCarriesStatusAndMessage ==
    \A i \in DOMAIN job :
        (job[i].pc = "done" /\ job[i].reply.body = "error") =>
            /\ ~job[i].outcome.ok
            /\ job[i].outcome.error.status = job[i].reply.status
            /\ job[i].reply.message => job[i].outcome.error.message = <<"provider message">>

(***************************************************************************)
(* C29: for every 2xx upstream response, a missing or null text field      *)
(* yields a ChatResponse whose text is the empty string and a missing      *)
(* usage block yields a response with absent or partial usage; send never  *)
(* ends in an error because an expected response field is absent.          *)
(***************************************************************************)
C29_AbsentFieldsDegrade ==
    \A i \in DOMAIN job :
        (job[i].pc = "done" /\ job[i].reply.body = "bare") =>
            /\ job[i].outcome.ok
            /\ job[i].outcome.value.text = ""
            /\ job[i].outcome.value.usage = "undefined"

(***************************************************************************)
(* C26: forwarding stream events to the client and reaching the terminal   *)
(* done never wait for a persistence write: if a write is slow or never    *)
(* completes, every upstream event is still forwarded and the stream still *)
(* terminates.                                                             *)
(***************************************************************************)
\* while a write is pending, an event that is ready can be forwarded, and a
\* finished upstream can be closed
C26_ForwardingNeverWaits ==
    (rpc \in {"persist", "final"} /\ (rpos < Len(tq) \/ tpc = "closed")) =>
        ENABLED (RelayForward \/ RelayEnd)

(***************************************************************************)
(* C27: when the caller disconnects from a relay that does not drain for   *)
(* persistence (wrapSseStream), the in-flight upstream HTTP response is    *)
(* cancelled: no further upstream chunk is read by the adapter's           *)
(* translator after the disconnect.                                        *)
(***************************************************************************)
C27_NoUpstreamReadAfterDisconnect ==
    [][(relay = "wrapSseStream" /\ cancelled) => reads' = reads]_vars

(***************************************************************************)
(* C28: after LLMClient is constructed, its adapter registry never         *)
(* changes: no operation reachable on the client adds, replaces or removes *)
(* an adapter, so dispatches running concurrently only ever read it.       *)
(***************************************************************************)
C28_RegistryNeverChanges ==
    [][adapters' = adapters]_vars

(***************************************************************************)
(* C40: whenever compression replaces the older history, the summary       *)
(* system message that stands for it contains a non-empty summary text:    *)
(* the history is never replaced when the summarization call yields no     *)
(* text.                                                                   *)
(***************************************************************************)
\* the list sent upstream is not the request's list: the history was replaced
Replaced == xpc = "done" /\ sent[1] # body

C40_SummaryNeverEmpty ==
    Replaced => (sent[1][1].role = "system" /\ sent[1][1].text # EmptyStr)

(***************************************************************************)
(* C39: in no reachable state of a relay is the output stream closed, or   *)
(* cancelled by its consumer, while the keep-alive timer is still active:  *)
(* the timer is cleared on every path by which the stream ends (upstream   *)
(* end, upstream exception, consumer cancel).                              *)
(***************************************************************************)
C39_NoTimerAfterStreamEnds ==
    (rpc = "closed" \/ cancelled) => ~heartbeat

(***************************************************************************)
(* C37: deleting a credential is idempotent: delete(user, provider)        *)
(* succeeds whether or not a record exists, and applying it twice gives    *)
(* the same result and the same store state as applying it once.           *)
(***************************************************************************)
\* request r runs its DELETE statement in this step
Deletes(r) == req[r].op = "delete" /\ req[r].pc = "db" /\ req'[r].pc = "done"

\* every delete answers ok and leaves no record of its pair; where there was
\* none (as after a first delete) the store stays as it is, and deleting
\* again from the store it leaves would change nothing
C37_DeleteIdempotent ==
    [][\A r \in DOMAIN req : Deletes(r) =>
          LET u == req[r].user
              p == req[r].provider
          IN /\ req'[r].response = Json(200, "ok", <<>>)
             /\ Matching(store', u, p) = {}
             /\ Matching(store, u, p) = {} => store' = store
             /\ DeleteRows(store', u, p) = store'
             /\ DeleteResponse(store', u, p) = req'[r].response]_vars

\* the same pair was deleted twice, with the same answer both times
C37_Witness ==
    \E r1, r2 \in DOMAIN req :
        /\ r1 # r2
        /\ req[r1].pc = "done" /\ req[r2].pc = "done"
        /\ req[r2].op = "delete" /\ req[r2].response.status = 200
        /\ req[r1].user = req[r2].user /\ req[r1].provider = req[r2].provider
        /\ req[r1].op = "delete" /\ req[r1].response = req[r2].response
        /\ Matching(store, req[r2].user, req[r2].provider) = {}

(***************************************************************************)
(* C38: a save or a delete for (u, p) changes only the record of (u, p):   *)
(* the envelope and the hint of the record of every other (user, provider) *)
(* pair are unchanged by it, in every interleaving with other users'       *)
(* operations.                                                             *)
(***************************************************************************)
\* request r runs its statement (upsert or delete) in this step
Writes(r) == req[r].op \in {"save", "delete"} /\ req[r].pc = "db" /\ req'[r].pc = "done"

\* the envelope and hint stored for a pair, if any
Stored(rows, u, p) ==
    {<<r.encrypted_key, r.key_hint>> : r \in Matching(rows, u, p)}

C38_OnlyOwnRecordChanges ==
    [][\A r \in DOMAIN req : Writes(r) =>
          \A u \in Users, p \in Providers :
              <<u, p>> # <<req[r].user, req[r].provider>> =>
                  Stored(store', u, p) = Stored(store, u, p)]_vars

\* one user's record is in the store after another user's save or delete of
\* the same provider has run
C38_Witness ==
    \E r1, r2 \in DOMAIN req :
        /\ req[r1].op = "save" /\ req[r1].pc = "done" /\ req[r1].response.status = 200
        /\ req[r2].op \in {"save", "delete"} /\ req[r2].pc = "done"
        /\ req[r2].response.status = 200
        /\ req[r1].user # req[r2].user /\ req[r1].provider = req[r2].provider
        /\ Stored(store, req[r1].user, req[r1].provider) = {<<req[r1].encrypted, req[r1].hint>>}

(***************************************************************************)
(* C31: for every non-empty secret and every keepPrefix, keepSuffix >= 0,  *)
(* SecretRedactor.mask returns a string that starts with the first         *)
(* keepPrefix characters of the secret, ends with its last keepSuffix      *)
(* characters, and contains "****" between them (all the characters of a   *)
(* secret that has fewer).                                                 *)
(***************************************************************************)
Masked == call.fn = "mask" /\ returned # <<>> /\ call.secret # <<>>

C31_MaskKeepsEndsAroundStars ==
    Masked =>
        LET secret == call.secret
            out == returned[1]
            a == IF call.keepPrefix > Len(secret) THEN Len(secret) ELSE call.keepPrefix
            b == IF call.keepSuffix > Len(secret) THEN Len(secret) ELSE call.keepSuffix
        IN /\ Len(out) = a + 4 + b
           /\ \A i \in 1..a : out[i] = secret[i]
           /\ \A i \in 1..4 : out[a + i] = STAR
           /\ \A i \in 1..b : out[a + 4 + i] = secret[Len(secret) - b + i]

\* a secret shorter than keepPrefix + keepSuffix has been masked, and one longer
C31_Witness ==
    /\ Masked
    /\ call.keepPrefix > 0 /\ call.keepSuffix > 0
    /\ Len(call.secret) < call.keepPrefix + call.keepSuffix
    /\ Len(call.secret) > call.keepPrefix
    /\ Len(returned[1]) = call.keepPrefix + 4 + call.keepSuffix

(***************************************************************************)
(* C36: for every non-empty secret and the default keepPrefix = 3 and      *)
(* keepSuffix = 4, the mask printed to the user by llmkv set-key never     *)
(* discloses every character of the secret: the characters shown before    *)
(* and after "****" together number strictly fewer than the secret's       *)
(* length.                                                                 *)
(***************************************************************************)
C36_MaskNeverShowsWholeSecret ==
    (call.fn = "set-key" /\ returned # <<>> /\ call.key # <<>>
        /\ returned[1].line = "Saved key") =>
        Len(returned[1].masked) - Len(Stars) < Len(call.key)

(***************************************************************************)
(* C32: for every text and list of secrets, SecretRedactor.redact returns  *)
(* a text in which every occurrence of each non-empty secret is replaced   *)
(* by "[REDACTED]", so no supplied non-empty secret occurs anywhere in the *)
(* output.                                                                 *)
(***************************************************************************)
C32_NoSecretInRedactedText ==
    (call.fn = "redact" /\ returned # <<>>) =>
        \A i \in DOMAIN call.secrets :
            call.secrets[i] # <<>> => ~Includes(returned[1], call.secrets[i])

(***************************************************************************)
(* C33: an Anthropic request body contains no message with role system;    *)
(* its top-level system field is the non-empty system message contents     *)
(* joined in their original order by a blank line (absent when there are   *)
(* none); and the non-system messages keep their content and relative      *)
(* order.                                                                  *)
(***************************************************************************)
\* the contents joined by "\n\n", built from the left
BlankLineJoined(cs) ==
    LET F[i \in 1..Len(cs)] == IF i = 1 THEN cs[1] ELSE F[i - 1] \o <<10, 10>> \o cs[i]
    IN F[Len(cs)]

AnthropicBuilt == call.fn = "anthropic" /\ returned # <<>>

C33_SystemSplitOut ==
    AnthropicBuilt =>
        LET sent1 == returned[1]
            given == call.messages
            systems == SelectSeq(given, LAMBDA m : m.role = "system" /\ m.content # <<>>)
            others == SelectSeq(given, LAMBDA m : m.role # "system")
        IN /\ \A i \in DOMAIN sent1.messages : sent1.messages[i].role # "system"
           /\ sent1.messages = others
           /\ IF systems = <<>> THEN ~sent1.system.present
              ELSE /\ sent1.system.present
                   /\ sent1.system.value = BlankLineJoined(ContentsOf(systems))

\* two different system contents around an empty one were joined, a user
\* message between or after them kept
C33_Witness ==
    /\ AnthropicBuilt
    /\ call.entry = "callAnthropicStream"
    /\ \E i, j, k \in DOMAIN call.messages :
          /\ i < j /\ j < k
          /\ call.messages[i] = [role |-> "system", content |-> <<97>>]
          /\ call.messages[j] = [role |-> "system", content |-> <<>>]
          /\ call.messages[k] = [role |-> "system", content |-> <<98>>]
    /\ returned[1].system = Present(<<97, 10, 10, 98>>)

(***************************************************************************)
(* C34: an OpenAI request body (streaming and non-streaming) contains a    *)
(* reasoning or a verbosity parameter only if the model is                 *)
(* reasoning-capable (its name contains "gpt-5", "o1" or "o3"); for every  *)
(* other model neither is sent.                                            *)
(***************************************************************************)
C34_ReasoningParamsOnlyForReasoningModels ==
    (call.fn = "openai" /\ returned # <<>>) =>
        ((returned[1].reasoning # Undefined \/ returned[1].verbosity # Undefined) =>
            \E i \in DOMAIN call.model : call.model[i] \in {"gpt-5", "o1", "o3"})

(***************************************************************************)
(* C35: if sessionId and assistantMessageId are supplied and the upstream  *)
(* stream ends, then, whether or not and whenever the client disconnected, *)
(* the last persistence write made by the relay holds exactly the          *)
(* in-order concatenation of all text deltas received from the upstream.   *)
(***************************************************************************)
\* the relay has closed its stream after the upstream ended
PersistedRun == relay = "POST" /\ persisting /\ rpc = "closed"

\* the last write holds every text event of the stream, in stream order, and
\* they are as many as the text deltas the upstream sent
C35_LastWriteHoldsAllText ==
    PersistedRun =>
        /\ written # <<>>
        /\ \A i \in 1..Len(tq) : tq[i] = "text" => \E j \in DOMAIN written[1] : written[1][j] = i
        /\ \A j \in DOMAIN written[1] : tq[written[1][j]] = "text"
        /\ \A j, k \in DOMAIN written[1] : j < k => written[1][j] < written[1][k]
        /\ Len(written[1]) = Count(DeltasOf(kind, ReceivedLines), "text")

\* the client left after the first of two text deltas; both are in the last write
C35_Witness ==
    /\ PersistedRun
    /\ cancelled
    /\ Count(clientOut, "text") = 1
    /\ Len(written[1]) = 2

====
